---- MODULE Spec2Model ----
(***************************************************************************)
(* State-machine model of the research scanner's stage orchestrator        *)
(* (scanner/pipeline/runner.py, scanner/pipeline/state.py), of the stage   *)
(* validators it calls (scanner/pipeline/stages.py) and of the run-health  *)
(* summary computed by the entry point (scanner/__main__.py,               *)
(* scanner/obs/metrics.py).                                                *)
(*                                                                         *)
(* One behaviour is the life of one run directory.  Spec follows the first  *)
(* invocation on a new run directory to the end of main, over every        *)
(* failure policy and the plans of up to MaxPlanLen entries.  SpecResume   *)
(* follows up to MaxInvocations invocations on the same run directory,     *)
(* any of which may be killed, over the resume and force options and the   *)
(* plans of the first two stages.  SpecStartup follows two invocations     *)
(* from the checks run_pipeline makes before its loop (configuration,      *)
(* spec_version of an existing pipeline_state.json, dry run) to the end of *)
(* main, with kills that fall inside a write of one of the two JSON files. *)
(* SpecDefault follows one invocation with the bodies of the default stage *)
(* definitions on a run directory of any content.  SpecPlan applies        *)
(* build_stage_plan to every command line of up to MaxStagesArg names.     *)
(* SpecClient follows up to MaxCalls calls of MexcClient._request          *)
(* (scanner/mexc/client.py) over every sequence of upstream outcomes and   *)
(* every max_retries up to MaxRetries.  SpecBucket follows NumCallers      *)
(* threads that call TokenBucket.acquire (scanner/mexc/ratelimit.py) in    *)
(* every interleaving, statement by statement, on a discrete clock.        *)
(*                                                                         *)
(* The analysis code is followed by seven further specifications.          *)
(* SpecSpread follows run_spread_sampling (scanner/pipeline/               *)
(* spread_sampling.py) tick by tick over every reply of the exchange and   *)
(* applies compute_spread_stats to every list of up to MaxSamples quotes.  *)
(* SpecScore applies score_symbol, SpecSelect _select_candidates,          *)
(* SpecCriteria the per-symbol verdict of run_depth_check and SpecUnwind   *)
(* compute_unwind_slippage_bps to every input of a bounded set.  SpecDepth *)
(* follows the sampling loop of run_depth_check request by request on a    *)
(* discrete clock.  SpecTotal follows pass_total from the export of        *)
(* summary_enriched.csv to the candidate list of the report.               *)
(*                                                                         *)
(* SpecBucketLive follows one caller of acquire under fair scheduling on a *)
(* clock that never stops, and SpecStats applies compute_spread_stats      *)
(* alone.  SpecTicker applies build_ticker24h_stats                        *)
(* (scanner/pipeline/ticker_24h.py) to every payload of one row,           *)
(* SpecUniverse applies build_universe (scanner/pipeline/universe.py) to   *)
(* two symbols over every default list, catalog, ticker payload and        *)
(* configuration of a bounded set, and SpecRoundTrip writes ScoreResults   *)
(* with export_summary (scanner/io/summary_export.py) and reads them back  *)
(* with _read_summary_results.                                             *)
(***************************************************************************)
EXTENDS Integers, Sequences, FiniteSets, TLC

VARIABLES
    pc,            \* idle (no process), enter, start, returned, done (main ended)
    plan,          \* stage_plan of the current invocation
    idx,           \* position of the for loop in stage_plan (1-based)
    options,       \* PipelineOptions of the current invocation
    config,        \* the AppConfig fields run_pipeline reads
    state,         \* the in-memory PipelineState.stages
    disk,          \* pipeline_state.json (NoFile when absent)
    art,           \* validity of the artifact files of the run directory
    timed_out,     \* local `timed_out` of the plan entry handled last
    ticks_success, \* local `ticks_success` of _has_minimum_data in that branch
    has_minimum_data, \* local `has_minimum_data` of that branch
    failed,        \* local `failed`
    exit_code,     \* local `exit_code`
    run_degraded,  \* local `run_degraded`
    ret,           \* value returned by run_pipeline (NoRet while running)
    client,        \* MexcClient.metrics of the current invocation
    metrics_json,  \* metrics.json
    run_health,    \* run_health computed by main after run_pipeline
    processed,     \* history: outcome of every plan entry handled so far
    inv,           \* history: number of invocations on the run directory
    prev_clean,    \* history: the previous invocation ran this plan and ended
                   \* with every entry success or skipped
    args,          \* command line: --stages, --from, --to
    plan_error,    \* build_stage_plan raised ValueError
    max_retries,   \* MexcConfig.max_retries of the client
    rq,            \* position of _request: idle, acquire, send, returned, raised
    attempt,       \* loop variable `attempt` of _request
    json_retry_count, \* local `json_retry_count` of _request
    http_requests_total, \* MexcMetrics.http_requests_total, by status label
    http_retries_total,  \* MexcMetrics.http_retries_total, by reason
    raised,        \* class of the error _request raised (None when it did not)
    outcomes,      \* history: upstream outcome of every attempt of the call
    acquired,      \* history: acquire() calls made by the call
    calls,         \* history: number of _request calls made on the client
    requests_before, \* history: request records when the call began
    retries_before,  \* history: retry records when the call began
    _rate,         \* TokenBucket._rate, in token units per clock tick
    _capacity,     \* TokenBucket._capacity, in token units
    _tokens,       \* TokenBucket._tokens, in token units
    _updated_at,   \* TokenBucket._updated_at, in clock ticks
    _lock,         \* TokenBucket._lock: the caller that holds it, or Unlocked
    clock,         \* time.monotonic(), in clock ticks
    at,            \* position of every caller in acquire: out, top, locked,
                   \* check, take, sleep
    wake_at,       \* clock value at which the time.sleep of a caller ends
    window_start,  \* history: start of the observed window of 10 seconds
    returned_in_window, \* history: acquire() calls that returned in the window
    granted,       \* history: acquire() calls that returned
    sampling,      \* the frame of run_spread_sampling: its position, arguments,
                   \* locals and the raw file (NotSampling before the call)
    depth_check,   \* the frame of run_depth_check: its position, arguments
                   \* and locals (NoDepthCheck before the call)
    call           \* one application of a function of the analytics: the
                   \* function, its arguments and what it returned

\* the variables of the orchestrator
pipeline_vars == <<pc, plan, idx, options, config, state, disk, art, timed_out,
                   ticks_success, has_minimum_data, failed, exit_code, run_degraded,
                   ret, client, metrics_json, run_health, processed, inv, prev_clean>>

\* the variables of the command line
cli_vars == <<args, plan_error>>

\* the variables of one MexcClient
request_vars == <<max_retries, rq, attempt, json_retry_count, http_requests_total,
                  http_retries_total, raised, outcomes, acquired, calls,
                  requests_before, retries_before>>

\* the variables of one TokenBucket and of its callers
bucket_vars == <<_rate, _capacity, _tokens, _updated_at, _lock, clock, at, wake_at,
                 window_start, returned_in_window, granted>>

\* the variables of the sampling loops and of the analytics functions
analysis_vars == <<sampling, depth_check, call>>

\* the variables run_pipeline and its stages never touch
other_vars == <<cli_vars, request_vars, bucket_vars, analysis_vars>>

vars == <<pipeline_vars, other_vars>>

----------------------------------------------------------------------------
(* Program constants *)

EXIT_OK == 0
EXIT_CONFIG_ERROR == 2
EXIT_STAGE_ERROR == 3
EXIT_VALIDATION_ERROR == 4

\* state.py 10
PIPELINE_SPEC_VERSION == "0.1"

\* exit status of the interpreter after an uncaught exception
EXIT_UNCAUGHT == 1

STAGE_ORDER == <<"universe", "spread", "score", "depth", "report">>

Stages == {STAGE_ORDER[i] : i \in 1..Len(STAGE_ORDER)}

StageTimeoutError == "StageTimeoutError"
ArtifactValidationError == "ArtifactValidationError"
RuntimeError == "RuntimeError"

(* Bounds of the model *)

\* largest ticks_success a stage body reports
MaxTicks == 2
\* largest number of non-2xx responses the client records per invocation
MaxHttp == 1
\* largest number of invocations on one run directory
MaxInvocations == 3
\* longest stage plan of the first invocation
MaxPlanLen == 4
\* largest number of invocations that exercise the startup checks
MaxStarts == 2
\* longest --stages list given to build_stage_plan
MaxStagesArg == 3

(* Sentinels *)

\* Python None as a keyword argument of set_stage
None == "None"
\* metrics.get("ticks_success") is None
NoTicks == -1
\* run_pipeline has not returned
NoRet == -1

----------------------------------------------------------------------------
(* Artifact files of the run directory.  Each entry is TRUE when the file   *)
(* group exists and passes its validator.                                   *)

ArtifactKinds ==
    {"universe", "raw", "summary_csv", "summary_json", "depth", "report_md", "shortlist"}

_validate_outputs_universe(a) == a["universe"]

_validate_outputs_spread(a) == a["raw"]

_validate_outputs_score(a) == a["summary_csv"] /\ a["summary_json"]

_validate_outputs_depth(a) == a["depth"]

\* summary.csv validates; run_meta.json is taken to exist, as main intends
_validate_inputs_report(a) == a["summary_csv"]

_validate_outputs_report(a) == a["report_md"] /\ a["shortlist"]

\* TRUE iff stage.validate_inputs(ctx) returns no error
validate_inputs(name, a) ==
    CASE name = "universe" -> TRUE
      [] name = "spread" -> _validate_outputs_universe(a)
      [] name = "score" -> _validate_outputs_universe(a) /\ _validate_outputs_spread(a)
      [] name = "depth" -> _validate_outputs_score(a)
      [] name = "report" -> _validate_inputs_report(a)

\* TRUE iff stage.validate_outputs(ctx) returns no error
validate_outputs(name, a) ==
    CASE name = "universe" -> _validate_outputs_universe(a)
      [] name = "spread" -> _validate_outputs_spread(a)
      [] name = "score" -> _validate_outputs_score(a)
      [] name = "depth" -> _validate_outputs_depth(a)
      [] name = "report" -> _validate_outputs_report(a)

\* the artifact kinds a stage body writes
StageWrites(name) ==
    CASE name = "universe" -> {"universe"}
      [] name = "spread" -> {"raw"}
      [] name = "score" -> {"summary_csv", "summary_json"}
      [] name = "depth" -> {"depth"}
      [] name = "report" -> {"report_md", "shortlist"}

\* the artifact kinds the body of a default stage definition has written
\* when it returns: export_universe, export_summary, export_depth_metrics
\* with export_summary_enriched, and generate_report, which writes report.md
\* and no shortlist.csv
StageProduces(name) ==
    CASE name = "universe" -> {"universe"}
      [] name = "spread" -> {"raw"}
      [] name = "score" -> {"summary_csv", "summary_json"}
      [] name = "depth" -> {"depth"}
      [] name = "report" -> {"report_md"}

\* _run_spread passes deadline_ts to run_spread_sampling, which has no such
\* parameter: the call raises TypeError
DefaultBodyCanReturn(name) == name /= "spread"

\* every content of the run directory a body of the stage can leave behind
BodyWrites(name, a) ==
    {[k \in ArtifactKinds |-> IF k \in StageWrites(name) THEN k \in valid ELSE a[k]] :
        valid \in SUBSET StageWrites(name)}

----------------------------------------------------------------------------
(* PipelineState (state.py) *)

\* a metrics dict, reduced to the keys the runner reads: timed_out is
\* "absent", "false" or "true", ticks_success is NoTicks when absent
Metrics(t, k) ==
    [is_none |-> FALSE, timed_out |-> t, ticks_success |-> k]

\* metrics=None as a keyword argument of set_stage
NoneMetrics == [is_none |-> TRUE, timed_out |-> "absent", ticks_success |-> NoTicks]

\* the empty dict {}
EmptyMetrics == Metrics("absent", NoTicks)

\* bool(metrics.get("timed_out"))
Truthy(m) == m.timed_out = "true"

\* {"timed_out": True, **metrics}: a key of metrics overrides the default
WithTimedOut(m) ==
    Metrics(IF m.timed_out = "absent" THEN "true" ELSE m.timed_out, m.ticks_success)

\* metrics is reduced to bool(metrics.get("timed_out")), error to its type
StageState(status, started_at, finished_at, t, error) ==
    [status |-> status, started_at |-> started_at, finished_at |-> finished_at,
     timed_out |-> t, error |-> error]

\* create_pipeline_state: every defined stage pending, nothing recorded
create_pipeline_state ==
    [s \in Stages |-> StageState("pending", "null", "null", FALSE, "null")]

\* PipelineState.set_stage: a keyword argument left at None keeps the field
set_stage(st, name, status, started_at, finished_at, m, error) ==
    [st EXCEPT ![name] =
        [status |-> IF status /= None THEN status ELSE @.status,
         started_at |-> IF started_at /= None THEN started_at ELSE @.started_at,
         finished_at |-> IF finished_at /= None THEN finished_at ELSE @.finished_at,
         timed_out |-> IF ~m.is_none THEN Truthy(m) ELSE @.timed_out,
         error |-> IF error /= None THEN error ELSE @.error]]

\* pipeline_state.json before the first invocation
NoFile ==
    [exists |-> FALSE, complete |-> TRUE, spec_version |-> PIPELINE_SPEC_VERSION,
     stages |-> create_pipeline_state]

\* a pipeline_state.json left by a scanner with another PIPELINE_SPEC_VERSION
OtherVersionFile == [NoFile EXCEPT !.exists = TRUE, !.spec_version = "0.0"]

\* a writer that leaves the file as it is
write_nothing(file, st) == file

\* write_pipeline_state: the file is replaced by the payload of the state
write_pipeline_state(file, st) ==
    [exists |-> TRUE, complete |-> TRUE, spec_version |-> PIPELINE_SPEC_VERSION,
     stages |-> st]

\* Path.write_text opens the file for writing, which truncates it, and then
\* writes: a process killed in between leaves an empty file or a prefix
TornWrite(file) == [file EXCEPT !.exists = TRUE, !.complete = FALSE]

\* json.loads(path.read_text()) raises on an empty or cut file
JsonLoads(file) == file.complete

\* a loader that accepts every spec_version
SpecVersionAccepted(file) == FALSE

\* load_pipeline_state raises SpecVersionMismatchError
SpecVersionMismatch(file) == file.spec_version /= PIPELINE_SPEC_VERSION

\* a loader that ignores the statuses stored in the file
load_fresh_state(file) == create_pipeline_state

\* load_pipeline_state
load_pipeline_state(file) == file.stages

----------------------------------------------------------------------------
(* Configuration and options (config.py, runner.py) *)

\* ceil(a / b) for a >= 0, b > 0
Ceil(a, b) == (a + b - 1) \div b

Max(a, b) == IF a >= b THEN a ELSE b

\* min_uptime is a percentage here: min_uptime = min_uptime_pct / 100
UptimeDen == 100

Config(behavior, total, stage, pct) ==
    [timeout_behavior |-> behavior, total_timeout_s |-> total,
     stage_timeout_s |-> stage, duration_s |-> 2, interval_s |-> 1,
     min_uptime_pct |-> pct, raw_enabled |-> TRUE]

\* sampling.raw.enabled = false
RawDisabled(cfg) == [cfg EXCEPT !.raw_enabled = FALSE]

\* the configurations of the first invocation: both timeout policies, with
\* and without a deadline, and min_uptime 0, 0.5 and 1 (exact as floats)
Configs ==
    {Config("fail", 0, 1, 50),
     Config("partial_success", 1, 0, 100),
     Config("partial_success", 0, 0, 0)}

\* the options of a run that is not a dry run, with a known validation mode
AllOptions ==
    [resume : BOOLEAN, force : BOOLEAN, fail_fast : BOOLEAN, continue_on_error : BOOLEAN,
     dry_run : {FALSE}, artifact_validation : {"strict"}]

\* the options of the first invocation: the command line's defaults for
\* resume and force, every failure policy
Options == {o \in AllOptions : o.resume /\ ~o.force}

\* build_stage_plan with a (from, to) window
Window(i, j) == SubSeq(STAGE_ORDER, i, j)

\* the plans build_stage_plan returns: every window, and explicit lists that
\* ensure_stage_order accepts (it accepts gaps and repeats)
AllPlans ==
    ({Window(i, j) : i \in 1..Len(STAGE_ORDER), j \in 1..Len(STAGE_ORDER)} \ {<<>>})
    \cup {<<"universe", "score">>, <<"universe", "universe">>,
          <<"universe", "spread", "score", "report">>}

\* the plans of the first invocation
Plans == {p \in AllPlans : Len(p) <= MaxPlanLen}

\* the inputs of the invocations of a resumed run directory
ResumeOptions == {o \in AllOptions : o.fail_fast /\ ~o.continue_on_error}

ResumePlans == {Window(1, 1), Window(2, 2), Window(1, 2)}

ResumeConfigs == {Config("fail", 0, 1, 50), Config("partial_success", 0, 0, 0)}

\* the inputs of the invocations that exercise the checks made before the
\* loop: dry runs, an unknown validation mode, raw sampling switched off
StartupOptions ==
    {[resume |-> TRUE, force |-> FALSE, fail_fast |-> TRUE, continue_on_error |-> FALSE,
      dry_run |-> d, artifact_validation |-> v] :
        d \in BOOLEAN, v \in {"strict", "bogus"}}

StartupPlans == {Window(1, 1), Window(2, 3)}

\* the plans run with the default stage definitions: one stage or two
DefaultPlans == {p \in AllPlans : Len(p) <= 2}

StartupConfigs == {Config("fail", 0, 1, 100), RawDisabled(Config("fail", 0, 1, 100))}

\* _min_ticks_success without the floor of one tick
_min_ticks_success_unfloored(stage_name, cfg) ==
    IF stage_name = "spread"
    THEN Ceil(Ceil(cfg.duration_s, cfg.interval_s) * cfg.min_uptime_pct, UptimeDen)
    ELSE IF stage_name = "depth" THEN 1
    ELSE NoTicks

\* _min_ticks_success; NoTicks stands for None
_min_ticks_success(stage_name, cfg) ==
    IF stage_name = "spread"
    THEN LET target_ticks == Max(1, Ceil(cfg.duration_s, cfg.interval_s))
         IN Max(1, Ceil(target_ticks * cfg.min_uptime_pct, UptimeDen))
    ELSE IF stage_name = "depth" THEN 1
    ELSE NoTicks

_has_minimum_data(stage_name, m, cfg) ==
    IF m.ticks_success = NoTicks THEN FALSE
    ELSE LET min_ticks_success == _min_ticks_success(stage_name, cfg)
         IN IF min_ticks_success = NoTicks THEN FALSE
            ELSE m.ticks_success >= min_ticks_success

\* stage_deadline is not None (runner.py 207-213)
HasDeadline(cfg) == cfg.stage_timeout_s > 0 \/ cfg.total_timeout_s > 0

----------------------------------------------------------------------------
(* metrics.json and the client's counters (obs/metrics.py) *)

ZeroClient == [s429 |-> 0, s403 |-> 0, s5xx |-> 0]

\* metrics.json as create_run_layout writes it
InitialMetricsJson ==
    [file |-> "whole", http_429_total |-> 0, http_403_total |-> 0,
     http_5xx_total |-> 0, run_degraded |-> 0,
     pipeline_stage_skipped_total |-> 0, pipeline_stage_success_total |-> 0,
     pipeline_stage_failed_total |-> 0]

\* what a process killed inside _write_metrics leaves: Path.write_text has
\* truncated the file and written nothing ("empty") or a prefix ("cut")
TornMetrics(payload) == {[payload EXCEPT !.file = f] : f \in {"empty", "cut"}}

\* json.loads raises on a cut file
MetricsReadable(payload) == payload.file /= "cut"

\* _read_metrics: an empty file reads as {}, whose counters default to 0
_read_metrics(payload) ==
    IF payload.file = "empty" THEN InitialMetricsJson ELSE payload

\* a flush that writes the file back without the client's counters
update_http_metrics_stale(payload, m) == _read_metrics(payload)

\* update_http_metrics: the totals of the client replace those of the file
update_http_metrics(payload, m) ==
    [_read_metrics(payload) EXCEPT !.http_429_total = m.s429,
                                   !.http_403_total = m.s403,
                                   !.http_5xx_total = m.s5xx]

summarize_api_health(payload) ==
    IF payload.http_5xx_total > 0 THEN "api_unstable"
    ELSE IF payload.http_429_total > 0 \/ payload.http_403_total > 0
            \/ payload.run_degraded > 0 THEN "degraded"
    ELSE "ok"

\* the counter a branch of run_pipeline increments when it records a stage
\* ("none": the branch makes no update_metrics call with increments)
NoIncrement == "none"

\* update_metrics(increments={key: 1}): payload[key] = payload.get(key, 0) + 1
update_metrics_increments(payload, key) ==
    IF key = NoIncrement THEN payload
    ELSE [_read_metrics(payload) EXCEPT ![key] = @ + 1]

\* update_metrics(gauges={"run_degraded": value})
update_metrics(payload, value) == [_read_metrics(payload) EXCEPT !.run_degraded = value]

\* the responses a stage body can add to the client's counters
HttpEvents == {"none", "429", "403", "5xx"}

Record(m, ev) ==
    CASE ev = "none" -> m
      [] ev = "429" -> [m EXCEPT !.s429 = @ + 1]
      [] ev = "403" -> [m EXCEPT !.s403 = @ + 1]
      [] ev = "5xx" -> [m EXCEPT !.s5xx = @ + 1]

CanRecord(m, ev) == ev = "none" \/ m.s429 + m.s403 + m.s5xx < MaxHttp

----------------------------------------------------------------------------
(* run_pipeline (runner.py) *)

\* runner.py 246-248
stage_previously_timed_out(stage_state) ==
    stage_state.timed_out \/ stage_state.error = StageTimeoutError

\* a resume decision that forgets --force
ShouldSkipForced(opts, outputs_ok, stage_state) ==
    /\ opts.resume
    /\ outputs_ok
    /\ ~stage_previously_timed_out(stage_state)

\* a resume decision that never skips a stage recorded as running
ShouldSkipUnlessRunning(opts, outputs_ok, stage_state) ==
    /\ opts.resume
    /\ ~opts.force
    /\ outputs_ok
    /\ ~stage_previously_timed_out(stage_state)
    /\ stage_state.status /= "running"

\* the resume decision, runner.py 249-254
ShouldSkip(opts, outputs_ok, stage_state) ==
    /\ opts.resume
    /\ ~opts.force
    /\ outputs_ok
    /\ ~stage_previously_timed_out(stage_state)

\* `and` in the place of `or`
ContinueOnlyIfBoth(opts) == opts.continue_on_error /\ ~opts.fail_fast

\* `if options.continue_on_error or not options.fail_fast: continue`
ContinueAfterFailure(opts) == opts.continue_on_error \/ ~opts.fail_fast

\* runner.py 376-378
TimedOut(m, over) == Truthy(m) \/ over

\* runner.py 391: "partial_success" or "fail"
TimeoutAction(cfg, has_outputs, has_min) ==
    IF has_outputs /\ has_min THEN "partial_success" ELSE "fail"

\* exit_code = code: the last failure wins
LastExitCode(e, code) == code

\* exit_code = max(exit_code, code) after a failure
RaiseExitCode(e, code) == Max(e, code)

\* runner.py 514-515
FinalExitCode(f, e) == IF f /\ e = EXIT_OK THEN EXIT_STAGE_ERROR ELSE e

----------------------------------------------------------------------------
(* scanner/mexc/client.py: the client before its first request *)

\* most retries configured for a client
MaxRetries == 3
\* most _request calls followed on one client
MaxCalls == 2

\* config.py 21: the default of MexcConfig.max_retries
DEFAULT_MAX_RETRIES == 5

\* what the upstream can answer to one attempt: a status below 400 with a
\* JSON body, a status below 400 whose body is not JSON, 429, 403, a status
\* of 500 or more, another status of 400 or more, a timeout, a transport error
Outcomes == {"ok", "invalid_json", "429", "403", "5xx", "4xx", "timeout", "connection_error"}

\* client.py 251, 340, 362: the status label recorded for the attempt
status_label(o) ==
    CASE o \in {"ok", "invalid_json"} -> "200"
      [] o = "5xx" -> "500"
      [] o = "4xx" -> "400"
      [] OTHER -> o

StatusLabels == {status_label(o) : o \in Outcomes}

\* client.py 277-376: the reason recorded when the attempt is retried
RetryReason(o) ==
    CASE o = "429" -> "rate_limited"
      [] o = "403" -> "waf_limited"
      [] o = "5xx" -> "server_error"
      [] OTHER -> o

RetryReasons == {RetryReason(o) : o \in Outcomes \ {"ok", "4xx"}}

\* MexcMetrics() of a new client: both counters are empty
NoRecords(keys) == [k \in keys |-> 0]

\* client.py 120-133: the client as constructed, no request made
MexcClient(m) ==
    /\ max_retries = m
    /\ rq = "idle"
    /\ attempt = 0
    /\ json_retry_count = 0
    /\ http_requests_total = NoRecords(StatusLabels)
    /\ http_retries_total = NoRecords(RetryReasons)
    /\ raised = None
    /\ outcomes = <<>>
    /\ acquired = 0
    /\ calls = 0
    /\ requests_before = 0
    /\ retries_before = 0

----------------------------------------------------------------------------
(* scanner/mexc/ratelimit.py: the bucket as constructed *)

\* clock ticks in one second
TicksPerSecond == 1
\* token units in one token
UnitsPerToken == 2
\* threads that call acquire() on the bucket
NumCallers == 2
\* latest start of the observed window, in clock ticks
MaxWindowStart == 1

Callers == 1..NumCallers

\* ratelimit.py 15: the lock of a new bucket is held by no caller
Unlocked == 0

\* config.py 24: the default of MexcConfig.max_rps, in tokens per second
DEFAULT_MAX_RPS == 2

\* a rate of tokens per second, in token units per clock tick
PerTick(rate_per_sec) == (rate_per_sec * UnitsPerToken) \div TicksPerSecond

\* the rates of the buckets followed, in token units per clock tick: half a
\* token, one token and two tokens per second
Rates == {PerTick(1) \div 2, PerTick(1), PerTick(2)}

\* a capacity of twice the rate
DoubleCapacity(r) == 2 * r * TicksPerSecond

\* ratelimit.py 12: capacity is rate_per_sec tokens when none is given
DefaultCapacity(r) == r * TicksPerSecond

\* ratelimit.py 8-15: TokenBucket(rate_per_sec) at clock 0, no caller inside
TokenBucket(r) ==
    /\ _rate = r
    /\ _capacity = DefaultCapacity(r)
    /\ _tokens = DefaultCapacity(r)
    /\ _updated_at = 0
    /\ _lock = Unlocked
    /\ clock = 0
    /\ at = [t \in Callers |-> "out"]
    /\ wake_at = [t \in Callers |-> 0]

\* the window of 10 seconds that starts at clock w is observed
Observed(w) ==
    /\ window_start = w
    /\ returned_in_window = 0
    /\ granted = 0

----------------------------------------------------------------------------
(* the sampling loops and the analytics before they are called *)

\* run_spread_sampling has not been called
NotSampling == [pc |-> "idle"]

\* run_depth_check has not been called
NoDepthCheck == [pc |-> "idle"]

\* no function of the analytics has been applied
NoCall == [fn |-> "none"]

\* neither loop runs and no function of the analytics is applied
AnalysisIdle ==
    /\ sampling = NotSampling
    /\ depth_check = NoDepthCheck
    /\ call = NoCall

DefaultOptions ==
    [resume |-> TRUE, force |-> FALSE, fail_fast |-> TRUE, continue_on_error |-> FALSE,
     dry_run |-> FALSE, artifact_validation |-> "strict"]

DefaultConfig == Config("fail", 0, 0, 100)

\* no --stages, --from or --to on the command line
NoArgs == [stages |-> <<>>, stage_from |-> None, stage_to |-> None]

name == plan[idx]

\* one entry of the history of the invocation
Outcome(st, n, body) ==
    [stage |-> n, status |-> st[n].status, error |-> st[n].error, body |-> body]

\* every plan entry of the invocation ended success or skipped
EndedClean ==
    /\ pc = "done"
    /\ Len(processed) = Len(plan)
    /\ \A i \in 1..Len(processed) : processed[i].status \in {"success", "skipped"}

Init ==
    /\ pc = "idle"
    /\ plan = <<>>
    /\ idx = 0
    /\ options = DefaultOptions
    /\ config = DefaultConfig
    /\ state = create_pipeline_state
    /\ disk = NoFile
    /\ art = [k \in ArtifactKinds |-> FALSE]
    /\ timed_out = FALSE
    /\ ticks_success = NoTicks
    /\ has_minimum_data = FALSE
    /\ failed = FALSE
    /\ exit_code = EXIT_OK
    /\ run_degraded = FALSE
    /\ ret = NoRet
    /\ client = ZeroClient
    /\ metrics_json = InitialMetricsJson
    /\ run_health = "ok"
    /\ processed = <<>>
    /\ inv = 0
    /\ prev_clean = FALSE
    /\ args = NoArgs
    /\ plan_error = FALSE
    /\ MexcClient(DEFAULT_MAX_RETRIES)
    /\ TokenBucket(PerTick(DEFAULT_MAX_RPS))
    /\ Observed(0)
    /\ AnalysisIdle

\* no invocation of the pipeline: the state of Init for the orchestrator,
\* the command line, the client and the bucket
PipelineIdle ==
    /\ pc = "idle"
    /\ plan = <<>>
    /\ idx = 0
    /\ options = DefaultOptions
    /\ config = DefaultConfig
    /\ state = create_pipeline_state
    /\ disk = NoFile
    /\ art = [k \in ArtifactKinds |-> FALSE]
    /\ timed_out = FALSE
    /\ ticks_success = NoTicks
    /\ has_minimum_data = FALSE
    /\ failed = FALSE
    /\ exit_code = EXIT_OK
    /\ run_degraded = FALSE
    /\ ret = NoRet
    /\ client = ZeroClient
    /\ metrics_json = InitialMetricsJson
    /\ run_health = "ok"
    /\ processed = <<>>
    /\ inv = 0
    /\ prev_clean = FALSE
    /\ args = NoArgs
    /\ plan_error = FALSE
    /\ MexcClient(DEFAULT_MAX_RETRIES)
    /\ TokenBucket(PerTick(DEFAULT_MAX_RPS))
    /\ Observed(0)

\* the variables no sampling loop and no function of the analytics touches
base_vars == <<pipeline_vars, cli_vars, request_vars, bucket_vars>>

\* no timeout branch was taken: its locals are unset
NoTimeoutLocals ==
    /\ timed_out' = FALSE
    /\ ticks_success' = NoTicks
    /\ has_minimum_data' = FALSE

\* runner.py 114-131: the checks that return EXIT_CONFIG_ERROR (every plan
\* entry has a default stage definition, so `missing` is empty)
ConfigInvalid(o, p, c) ==
    \/ o.artifact_validation \notin {"strict", "lenient"}
    \/ (\E i \in 1..Len(p) : p[i] = "score") /\ ~c.raw_enabled

\* run_pipeline returns, or raises, before its loop: no stage is handled
LeavesBeforeLoop(code) ==
    /\ pc' = IF code = EXIT_UNCAUGHT THEN "done" ELSE "returned"
    /\ ret' = code
    /\ idx' = 0
    /\ failed' = FALSE
    /\ exit_code' = EXIT_OK
    /\ run_degraded' = FALSE
    /\ processed' = <<>>

\* run_pipeline is called with options o, plan p and configuration c:
\* runner.py 114-204
run_pipeline(o, p, c) ==
    /\ pc \in {"idle", "done"}
    /\ options' = o
    /\ plan' = p
    /\ config' = c
    /\ prev_clean' = (EndedClean /\ plan = p)
    /\ inv' = inv + 1
    /\ client' = ZeroClient
    /\ NoTimeoutLocals
    /\ run_health' = "ok"
    /\ IF ConfigInvalid(o, p, c)
       THEN /\ LeavesBeforeLoop(EXIT_CONFIG_ERROR)
            /\ UNCHANGED <<state, disk, metrics_json>>
       ELSE IF disk.exists /\ ~JsonLoads(disk)
       THEN /\ LeavesBeforeLoop(EXIT_UNCAUGHT)
            /\ UNCHANGED <<state, disk, metrics_json>>
       ELSE IF disk.exists /\ SpecVersionMismatch(disk)
       THEN /\ LeavesBeforeLoop(EXIT_VALIDATION_ERROR)
            /\ UNCHANGED <<state, disk, metrics_json>>
       ELSE /\ state' = IF disk.exists THEN load_pipeline_state(disk)
                        ELSE create_pipeline_state
            /\ disk' = IF disk.exists THEN disk
                       ELSE write_pipeline_state(disk, create_pipeline_state)
            /\ IF o.dry_run
               THEN IF MetricsReadable(metrics_json)
                    THEN /\ LeavesBeforeLoop(EXIT_OK)
                         /\ metrics_json' = update_http_metrics(metrics_json, ZeroClient)
                    ELSE /\ LeavesBeforeLoop(EXIT_UNCAUGHT)
                         /\ UNCHANGED metrics_json
               ELSE /\ pc' = "enter"
                    /\ idx' = 1
                    /\ failed' = FALSE
                    /\ exit_code' = EXIT_OK
                    /\ run_degraded' = FALSE
                    /\ ret' = NoRet
                    /\ processed' = <<>>
                    /\ UNCHANGED metrics_json
    /\ UNCHANGED <<art, other_vars>>

\* the first invocation on a new run directory
Invoke ==
    /\ inv = 0
    /\ \E o \in Options, p \in Plans, c \in Configs : run_pipeline(o, p, c)

\* an invocation on a run directory that is used again and again
Reinvoke ==
    /\ inv < MaxInvocations
    /\ \E o \in ResumeOptions, p \in ResumePlans, c \in ResumeConfigs :
        run_pipeline(o, p, c)

\* The end of the handling of one plan entry: the state is written, the
\* http metrics are flushed, and the loop continues, ends or returns.  When
\* metrics.json cannot be parsed the update that follows the write of the
\* state raises, and so does the flush of the finally clause.
EndStage(st, a, cl, f, e, rd, body, returns, code, key) ==
    /\ state' = st
    /\ disk' = write_pipeline_state(disk, st)
    /\ art' = a
    /\ client' = cl
    /\ processed' = Append(processed, Outcome(st, name, body))
    /\ failed' = f
    /\ exit_code' = e
    /\ run_degraded' = rd
    /\ metrics_json' = IF MetricsReadable(metrics_json)
                       THEN update_http_metrics(
                                update_metrics_increments(metrics_json, key), cl)
                       ELSE metrics_json
    /\ IF ~MetricsReadable(metrics_json)
       THEN pc' = "done" /\ ret' = EXIT_UNCAUGHT /\ idx' = idx
       ELSE IF returns
       THEN pc' = "returned" /\ ret' = code /\ idx' = idx
       ELSE IF idx < Len(plan)
       THEN pc' = "enter" /\ ret' = NoRet /\ idx' = idx + 1
       ELSE pc' = "returned" /\ ret' = FinalExitCode(f, e) /\ idx' = idx
    /\ UNCHANGED <<plan, options, config, run_health, inv, prev_clean, other_vars>>

\* an input failure that honours the failure policy as the other failures do
StageInputsInvalidByPolicy ==
    /\ pc = "enter"
    /\ ~validate_inputs(name, art)
    /\ EndStage(set_stage(state, name, "failed", "ts", "ts", NoneMetrics,
                          ArtifactValidationError),
                art, client, TRUE, RaiseExitCode(exit_code, EXIT_VALIDATION_ERROR),
                run_degraded, FALSE,
                ~ContinueAfterFailure(options), EXIT_VALIDATION_ERROR,
                NoIncrement)
    /\ NoTimeoutLocals

\* runner.py 215-242: validate_inputs reports errors
StageInputsInvalid ==
    /\ pc = "enter"
    /\ ~validate_inputs(name, art)
    /\ EndStage(set_stage(state, name, "failed", "ts", "ts", NoneMetrics,
                          ArtifactValidationError),
                art, client, failed, exit_code, run_degraded, FALSE,
                TRUE, EXIT_VALIDATION_ERROR,
                NoIncrement)
    /\ NoTimeoutLocals

\* runner.py 244-267: the stage is skipped
StageSkip ==
    /\ pc = "enter"
    /\ validate_inputs(name, art)
    /\ ShouldSkip(options, validate_outputs(name, art), state[name])
    /\ EndStage(set_stage(state, name, "skipped", None, "ts", EmptyMetrics, None),
                art, client, failed, exit_code, run_degraded, FALSE,
                FALSE, EXIT_OK,
                "pipeline_stage_skipped_total")
    /\ NoTimeoutLocals

\* runner.py 269-273: the stage is marked running
StageStart ==
    /\ pc = "enter"
    /\ validate_inputs(name, art)
    /\ ~ShouldSkip(options, validate_outputs(name, art), state[name])
    /\ state' = set_stage(state, name, "running", "ts", None, NoneMetrics, None)
    /\ disk' = write_pipeline_state(disk, state')
    /\ pc' = "start"
    /\ NoTimeoutLocals
    /\ UNCHANGED <<plan, idx, options, config, art, failed, exit_code, run_degraded,
                   ret, client, metrics_json, run_health, processed, inv, prev_clean,
                   other_vars>>

\* runner.py 274-329: the deadline has passed before the body starts
StageDeadlineBeforeStart ==
    /\ pc = "start"
    /\ HasDeadline(config)
    /\ EndStage(set_stage(state, name, "failed", None, "ts", Metrics("true", NoTicks),
                          StageTimeoutError),
                art, client, TRUE, RaiseExitCode(exit_code, EXIT_STAGE_ERROR),
                run_degraded, FALSE,
                ~ContinueAfterFailure(options), EXIT_STAGE_ERROR,
                "pipeline_stage_failed_total")
    /\ NoTimeoutLocals

\* runner.py 330-371: the body raises
StageRaise ==
    /\ pc = "start"
    /\ \E a \in BodyWrites(name, art), ev \in HttpEvents :
        /\ CanRecord(client, ev)
        /\ EndStage(set_stage(state, name, "failed", None, "ts", EmptyMetrics,
                              RuntimeError),
                    a, Record(client, ev), TRUE,
                    RaiseExitCode(exit_code, EXIT_STAGE_ERROR), run_degraded, TRUE,
                    ~ContinueAfterFailure(options), EXIT_STAGE_ERROR,
                "pipeline_stage_failed_total")
    /\ NoTimeoutLocals

\* how a stage body can return (runner.py 331): the timed_out key of its
\* metrics, and whether the elapsed time exceeds the timeout (runner.py
\* 373-378)
BodyReturns ==
    {r \in [timed_out : {"absent", "false", "true"}, over : BOOLEAN] :
        r.over => HasDeadline(config)}

\* the ticks_success key of the metrics a body returns; it is read in the
\* timeout branch only
TicksReported == {NoTicks} \cup (0..MaxTicks)

\* runner.py 331, 373-446: the body returns after its deadline
StageTimeout ==
    /\ pc = "start"
    /\ \E a \in BodyWrites(name, art), ev \in HttpEvents, r \in BodyReturns,
          k \in TicksReported :
        /\ CanRecord(client, ev)
        /\ TimedOut(Metrics(r.timed_out, k), r.over)
        /\ LET m == Metrics(r.timed_out, k)
               has_outputs == validate_outputs(name, a)
               has_min == _has_minimum_data(name, m, config)
               action == TimeoutAction(config, has_outputs, has_min)
               status == IF action = "partial_success" THEN "timeout" ELSE "failed"
               st == set_stage(state, name, status, None, "ts", WithTimedOut(m),
                               StageTimeoutError)
           IN /\ IF action = "partial_success"
                 THEN EndStage(st, a, Record(client, ev), failed, exit_code, TRUE,
                               TRUE, FALSE, EXIT_OK,
                               "pipeline_stage_success_total")
                 ELSE EndStage(st, a, Record(client, ev), TRUE,
                               RaiseExitCode(exit_code, EXIT_STAGE_ERROR),
                               run_degraded, TRUE,
                               ~ContinueAfterFailure(options), EXIT_STAGE_ERROR,
                               "pipeline_stage_failed_total")
              /\ timed_out' = TRUE
              /\ ticks_success' = k
              /\ has_minimum_data' = has_min

\* runner.py 331, 448-483: the body returns in time, its outputs do not validate
StageOutputsInvalid ==
    /\ pc = "start"
    /\ \E a \in BodyWrites(name, art), ev \in HttpEvents, r \in BodyReturns :
        /\ CanRecord(client, ev)
        /\ ~TimedOut(Metrics(r.timed_out, NoTicks), r.over)
        /\ ~validate_outputs(name, a)
        /\ EndStage(set_stage(state, name, "failed", None, "ts", Metrics(r.timed_out, NoTicks),
                              ArtifactValidationError),
                    a, Record(client, ev), TRUE,
                    RaiseExitCode(exit_code, EXIT_VALIDATION_ERROR),
                    run_degraded, TRUE,
                    ~ContinueAfterFailure(options), EXIT_VALIDATION_ERROR,
                "pipeline_stage_failed_total")
    /\ NoTimeoutLocals

\* runner.py 331, 485-512: the body returns in time with valid outputs
StageSuccess ==
    /\ pc = "start"
    /\ \E a \in BodyWrites(name, art), ev \in HttpEvents, r \in BodyReturns :
        /\ CanRecord(client, ev)
        /\ ~TimedOut(Metrics(r.timed_out, NoTicks), r.over)
        /\ validate_outputs(name, a)
        /\ EndStage(set_stage(state, name, "success", None, "ts", Metrics(r.timed_out, NoTicks), None),
                    a, Record(client, ev), failed, exit_code, run_degraded, TRUE,
                    FALSE, EXIT_OK,
                "pipeline_stage_success_total")
    /\ NoTimeoutLocals

\* the body of a default stage definition returns, with no deadline set
DefaultBodyReturns ==
    /\ pc = "start"
    /\ DefaultBodyCanReturn(name)
    /\ \E ev \in HttpEvents :
        /\ CanRecord(client, ev)
        /\ LET a == [k \in ArtifactKinds |-> art[k] \/ k \in StageProduces(name)]
               m == Metrics(IF name = "depth" THEN "false" ELSE "absent", NoTicks)
           IN IF validate_outputs(name, a)
              THEN EndStage(set_stage(state, name, "success", None, "ts", m, None),
                            a, Record(client, ev), failed, exit_code, run_degraded,
                            TRUE, FALSE, EXIT_OK,
                               "pipeline_stage_success_total")
              ELSE EndStage(set_stage(state, name, "failed", None, "ts", m,
                                      ArtifactValidationError),
                            a, Record(client, ev), TRUE,
                            RaiseExitCode(exit_code, EXIT_VALIDATION_ERROR),
                            run_degraded, TRUE,
                            ~ContinueAfterFailure(options), EXIT_VALIDATION_ERROR,
                               "pipeline_stage_failed_total")
    /\ NoTimeoutLocals

\* __main__.py 199-208: main derives the run health from metrics.json; when
\* the file cannot be parsed json.loads raises and main ends there
MainFinish ==
    /\ pc = "returned"
    /\ pc' = "done"
    /\ IF MetricsReadable(metrics_json)
       THEN /\ run_health' = summarize_api_health(_read_metrics(metrics_json))
            /\ metrics_json' =
                  update_metrics(metrics_json, IF run_health' = "ok" THEN 0 ELSE 1)
       ELSE UNCHANGED <<run_health, metrics_json>>
    /\ UNCHANGED <<plan, idx, options, config, state, disk, art, timed_out,
                   ticks_success, has_minimum_data, failed, exit_code, run_degraded,
                   ret, client, processed, inv, prev_clean, other_vars>>

\* the process is killed while an invocation is under way: the files stay,
\* the locals are gone
Interrupt ==
    /\ pc \in {"enter", "start"}
    /\ art' \in (IF pc = "start" THEN BodyWrites(name, art) ELSE {art})
    /\ pc' = "idle"
    /\ plan' = <<>>
    /\ idx' = 0
    /\ options' = DefaultOptions
    /\ config' = DefaultConfig
    /\ NoTimeoutLocals
    /\ failed' = FALSE
    /\ exit_code' = EXIT_OK
    /\ run_degraded' = FALSE
    /\ ret' = NoRet
    /\ client' = ZeroClient
    /\ processed' = <<>>
    /\ prev_clean' = FALSE
    /\ UNCHANGED <<state, disk, metrics_json, run_health, inv, other_vars>>

\* one invocation on a new run directory, followed to the end of main
Next ==
    \/ Invoke
    \/ StageInputsInvalid
    \/ StageSkip
    \/ StageStart
    \/ StageDeadlineBeforeStart
    \/ StageRaise
    \/ StageTimeout
    \/ StageOutputsInvalid
    \/ StageSuccess
    \/ MainFinish

Spec == Init /\ [][Next]_vars

\* a run directory used by up to MaxInvocations invocations, any of which
\* may be killed
NextResume ==
    \/ Reinvoke
    \/ StageInputsInvalid
    \/ StageSkip
    \/ StageStart
    \/ StageDeadlineBeforeStart
    \/ StageRaise
    \/ StageTimeout
    \/ StageOutputsInvalid
    \/ StageSuccess
    \/ MainFinish
    \/ Interrupt

SpecResume == Init /\ [][NextResume]_vars

\* the process is killed inside a write of pipeline_state.json or of
\* metrics.json (state.py 157-158, obs/metrics.py 21-22)
InterruptInWrite ==
    /\ pc \in {"enter", "start"}
    /\ \/ disk' = TornWrite(disk) /\ UNCHANGED metrics_json
       \/ metrics_json' \in TornMetrics(metrics_json) /\ UNCHANGED disk
    /\ art' \in (IF pc = "start" THEN BodyWrites(name, art) ELSE {art})
    /\ pc' = "idle"
    /\ plan' = <<>>
    /\ idx' = 0
    /\ options' = DefaultOptions
    /\ config' = DefaultConfig
    /\ NoTimeoutLocals
    /\ failed' = FALSE
    /\ exit_code' = EXIT_OK
    /\ run_degraded' = FALSE
    /\ ret' = NoRet
    /\ client' = ZeroClient
    /\ processed' = <<>>
    /\ prev_clean' = FALSE
    /\ UNCHANGED <<state, run_health, inv, other_vars>>

\* a run directory that may hold the pipeline_state.json of another version
InitStartup ==
    /\ pc = "idle"
    /\ plan = <<>>
    /\ idx = 0
    /\ options = DefaultOptions
    /\ config = DefaultConfig
    /\ state = create_pipeline_state
    /\ disk \in {NoFile, OtherVersionFile}
    /\ art = [k \in ArtifactKinds |-> FALSE]
    /\ timed_out = FALSE
    /\ ticks_success = NoTicks
    /\ has_minimum_data = FALSE
    /\ failed = FALSE
    /\ exit_code = EXIT_OK
    /\ run_degraded = FALSE
    /\ ret = NoRet
    /\ client = ZeroClient
    /\ metrics_json = InitialMetricsJson
    /\ run_health = "ok"
    /\ processed = <<>>
    /\ inv = 0
    /\ prev_clean = FALSE
    /\ args = NoArgs
    /\ plan_error = FALSE
    /\ MexcClient(DEFAULT_MAX_RETRIES)
    /\ TokenBucket(PerTick(DEFAULT_MAX_RPS))
    /\ Observed(0)
    /\ AnalysisIdle

\* an invocation with any of the startup inputs
Start ==
    /\ inv < MaxStarts
    /\ \E o \in StartupOptions, p \in StartupPlans, c \in StartupConfigs :
        run_pipeline(o, p, c)

NextStartup ==
    \/ Start
    \/ StageInputsInvalid
    \/ StageSkip
    \/ StageStart
    \/ StageDeadlineBeforeStart
    \/ StageRaise
    \/ StageTimeout
    \/ StageOutputsInvalid
    \/ StageSuccess
    \/ MainFinish
    \/ InterruptInWrite

SpecStartup == InitStartup /\ [][NextStartup]_vars

\* a run directory with any content, before its first pipeline_state.json
InitDefault ==
    /\ pc = "idle"
    /\ plan = <<>>
    /\ idx = 0
    /\ options = DefaultOptions
    /\ config = DefaultConfig
    /\ state = create_pipeline_state
    /\ disk = NoFile
    /\ art \in [ArtifactKinds -> BOOLEAN]
    /\ timed_out = FALSE
    /\ ticks_success = NoTicks
    /\ has_minimum_data = FALSE
    /\ failed = FALSE
    /\ exit_code = EXIT_OK
    /\ run_degraded = FALSE
    /\ ret = NoRet
    /\ client = ZeroClient
    /\ metrics_json = InitialMetricsJson
    /\ run_health = "ok"
    /\ processed = <<>>
    /\ inv = 0
    /\ prev_clean = FALSE
    /\ args = NoArgs
    /\ plan_error = FALSE
    /\ MexcClient(DEFAULT_MAX_RETRIES)
    /\ TokenBucket(PerTick(DEFAULT_MAX_RPS))
    /\ Observed(0)
    /\ AnalysisIdle

\* one invocation with the default stage definitions and no deadline
InvokeDefault ==
    /\ inv = 0
    /\ \E o \in ResumeOptions, p \in DefaultPlans : run_pipeline(o, p, DefaultConfig)

NextDefault ==
    \/ InvokeDefault
    \/ StageInputsInvalid
    \/ StageSkip
    \/ StageStart
    \/ StageRaise
    \/ DefaultBodyReturns
    \/ MainFinish

SpecDefault == InitDefault /\ [][NextDefault]_vars

----------------------------------------------------------------------------
(* build_stage_plan (runner.py, stages.py) *)

\* the names a command line can give: the stages and an unknown name
StageNames == Stages \cup {"bogus"}

\* positions[name] of ensure_stage_order, STAGE_ORDER.index(name)
Position(stage_name) == CHOOSE i \in 1..Len(STAGE_ORDER) : STAGE_ORDER[i] = stage_name

\* validate_stage_names raises ValueError
UnknownStages(stage_names) ==
    \E i \in 1..Len(stage_names) : stage_names[i] \notin Stages

\* ensure_stage_order raises ValueError: some name stands before the name
\* that precedes it in the list
OutOfOrder(stage_names) ==
    \E i \in 1..(Len(stage_names) - 1) :
        Position(stage_names[i + 1]) < Position(stage_names[i])

\* build_stage_plan: error is TRUE when it raises ValueError
build_stage_plan(a) ==
    IF a.stages /= <<>>
    THEN IF UnknownStages(a.stages) \/ OutOfOrder(a.stages)
         THEN [error |-> TRUE, plan |-> <<>>]
         ELSE [error |-> FALSE, plan |-> a.stages]
    ELSE IF a.stage_from /= None \/ a.stage_to /= None
    THEN IF \/ a.stage_from /= None /\ a.stage_from \notin Stages
            \/ a.stage_to /= None /\ a.stage_to \notin Stages
         THEN [error |-> TRUE, plan |-> <<>>]
         ELSE LET start_idx == IF a.stage_from /= None THEN Position(a.stage_from) ELSE 1
                  end_idx == IF a.stage_to /= None THEN Position(a.stage_to)
                             ELSE Len(STAGE_ORDER)
              IN IF start_idx > end_idx
                 THEN [error |-> TRUE, plan |-> <<>>]
                 ELSE [error |-> FALSE, plan |-> SubSeq(STAGE_ORDER, start_idx, end_idx)]
    ELSE [error |-> FALSE, plan |-> STAGE_ORDER]

\* the lists of 1..n names
NameLists(n) == UNION {[1..k -> StageNames] : k \in 1..n}

\* the command lines: a --stages list, or --from and --to, or neither
CommandLines ==
    {[stages |-> l, stage_from |-> None, stage_to |-> None] : l \in NameLists(MaxStagesArg)}
    \cup {[stages |-> <<>>, stage_from |-> f, stage_to |-> t] :
            f \in StageNames \cup {None}, t \in StageNames \cup {None}}

InitPlan ==
    /\ pc = "idle"
    /\ plan = <<>>
    /\ idx = 0
    /\ options = DefaultOptions
    /\ config = DefaultConfig
    /\ state = create_pipeline_state
    /\ disk = NoFile
    /\ art = [k \in ArtifactKinds |-> FALSE]
    /\ timed_out = FALSE
    /\ ticks_success = NoTicks
    /\ has_minimum_data = FALSE
    /\ failed = FALSE
    /\ exit_code = EXIT_OK
    /\ run_degraded = FALSE
    /\ ret = NoRet
    /\ client = ZeroClient
    /\ metrics_json = InitialMetricsJson
    /\ run_health = "ok"
    /\ processed = <<>>
    /\ inv = 0
    /\ prev_clean = FALSE
    /\ args \in CommandLines
    /\ plan_error = FALSE
    /\ MexcClient(DEFAULT_MAX_RETRIES)
    /\ TokenBucket(PerTick(DEFAULT_MAX_RPS))
    /\ Observed(0)
    /\ AnalysisIdle

\* __main__.py 169-177: main builds the plan from the command line
BuildPlan ==
    /\ pc = "idle"
    /\ pc' = "planned"
    /\ plan' = build_stage_plan(args).plan
    /\ plan_error' = build_stage_plan(args).error
    /\ UNCHANGED <<idx, options, config, state, disk, art, timed_out, ticks_success,
                   has_minimum_data, failed, exit_code, run_degraded, ret, client,
                   metrics_json, run_health, processed, inv, prev_clean, args,
                   request_vars, bucket_vars, analysis_vars>>

NextPlan == BuildPlan

SpecPlan == InitPlan /\ [][NextPlan]_vars

----------------------------------------------------------------------------
(* Vocabulary of the properties *)

Terminal == {"success", "timeout", "failed", "skipped"}

\* the plan entry handled last
LastProcessed == processed[Len(processed)]

\* the exit code a processed plan entry stands for
StageCode(o) ==
    IF o.status /= "failed" THEN EXIT_OK
    ELSE IF o.error = ArtifactValidationError THEN EXIT_VALIDATION_ERROR
    ELSE EXIT_STAGE_ERROR

MaxStageCode ==
    CHOOSE c \in {StageCode(processed[i]) : i \in 1..Len(processed)} :
        \A i \in 1..Len(processed) : StageCode(processed[i]) <= c

\* a step of the invocation that handles a plan entry whose inputs validate
EntersValidStage == pc = "enter" /\ pc' /= "idle" /\ validate_inputs(name, art)

\* a step that records the current plan entry as failed
RecordsFailure ==
    /\ pc \in {"enter", "start"}
    /\ Len(processed') = Len(processed) + 1
    /\ processed'[Len(processed')].status = "failed"

\* after run_pipeline has returned nothing is recorded any more
NothingAfterReturn == pc = "returned" => UNCHANGED <<state, disk, processed, ret>>

\* the timeout branch has just classified the plan entry handled last
TimeoutClassified == timed_out /\ pc \in {"enter", "returned"}

----------------------------------------------------------------------------
(* C1 *)

\* C1, as stated: every change of a stage's status is pending -> running or
\* running -> {success, timeout, failed, skipped}.
C1_StrictProgression ==
    [][\A s \in Stages : state'[s].status /= state[s].status =>
          \/ state[s].status = "pending" /\ state'[s].status = "running"
          \/ state[s].status = "running" /\ state'[s].status \in Terminal]_vars

\* C1, amended: no status ever returns to pending; success and timeout are
\* entered only from running; failed is entered from running or, by an input
\* validation failure, from any status; skipped and running are entered from
\* any status, so a stage that reached a terminal status runs again when a
\* later invocation does not skip it.
C1_Progression ==
    [][\A s \in Stages : state'[s].status /= state[s].status =>
          /\ state'[s].status /= "pending"
          /\ state'[s].status \in {"success", "timeout"} =>
                state[s].status = "running"
          /\ state'[s].status = "failed" /\ state[s].status /= "running" =>
                state'[s].error = ArtifactValidationError]_vars

\* a stage that had finished in an earlier invocation is running again
C1_Witness ==
    /\ inv >= 2
    /\ pc = "start"
    /\ state[name].status = "running"
    /\ state[name].finished_at = "ts"

----------------------------------------------------------------------------
(* C2 *)

----------------------------------------------------------------------------
(* C3 *)

\* C3, as stated: when the previous invocation ran the same plan and ended
\* with every entry success or skipped, and no artifact changed, an
\* invocation with resume and without force records every entry skipped,
\* executes no body and returns 0.
C3_IdempotentResume ==
    pc = "returned" /\ prev_clean /\ options.resume /\ ~options.force =>
        /\ ret = EXIT_OK
        /\ Len(processed) = Len(plan)
        /\ \A i \in 1..Len(processed) :
              processed[i].status = "skipped" /\ ~processed[i].body

----------------------------------------------------------------------------
(* C4 *)

\* C4: when validate_inputs reports an error the stage is recorded failed
\* with ArtifactValidationError, its body is not executed, run_pipeline
\* returns 4 without handling a later plan entry, whatever the failure
\* policy, and nothing is recorded after the return.
C4_InputFailureReturns ==
    [][/\ pc = "enter" /\ ~validate_inputs(name, art) =>
            /\ state'[name].status = "failed"
            /\ state'[name].error = ArtifactValidationError
            /\ \A s \in Stages \ {name} : state'[s] = state[s]
            /\ Len(processed') = Len(processed) + 1
            /\ ~processed'[Len(processed')].body
            /\ pc' = "returned"
            /\ ret' = EXIT_VALIDATION_ERROR
       /\ NothingAfterReturn]_vars

\* an input failure ended the invocation before the end of the plan although
\* continue_on_error is set
C4_Witness ==
    /\ pc = "returned"
    /\ ret = EXIT_VALIDATION_ERROR
    /\ options.continue_on_error
    /\ Len(processed) < Len(plan)
    /\ Len(processed) > 1
    /\ LastProcessed.error = ArtifactValidationError
    /\ ~LastProcessed.body

----------------------------------------------------------------------------
(* C5 *)

\* C5, as stated: a timed-out stage is recorded timeout and the pipeline
\* goes on exactly when its outputs validate, _has_minimum_data holds and
\* the configured policy is partial_success; otherwise it is recorded failed
\* with StageTimeoutError and the failure policy is applied.
C5_TimeoutPolicy ==
    TimeoutClassified =>
        IF /\ validate_outputs(LastProcessed.stage, art)
           /\ has_minimum_data
           /\ config.timeout_behavior = "partial_success"
        THEN /\ LastProcessed.status = "timeout"
             /\ pc = "returned" => Len(processed) = Len(plan)
        ELSE /\ LastProcessed.status = "failed"
             /\ LastProcessed.error = StageTimeoutError
             /\ options.fail_fast /\ ~options.continue_on_error => pc = "returned"

----------------------------------------------------------------------------
(* C6 *)

\* C6, as stated: _has_minimum_data holds for spread iff ticks_success >=
\* ceil(target_ticks * min_uptime), for depth iff ticks_success >= 1, never
\* for another stage, which is therefore recorded failed with
\* StageTimeoutError when it times out.
C6_MinimumDataCeil ==
    TimeoutClassified =>
        LET stage == LastProcessed.stage
            target_ticks == Ceil(config.duration_s, config.interval_s)
        IN /\ stage = "spread" =>
                (has_minimum_data <=>
                    ticks_success >= Ceil(target_ticks * config.min_uptime_pct, UptimeDen))
           /\ stage = "depth" => (has_minimum_data <=> ticks_success >= 1)
           /\ stage \notin {"spread", "depth"} =>
                /\ ~has_minimum_data
                /\ LastProcessed.status = "failed"
                /\ LastProcessed.error = StageTimeoutError

\* C6, amended: _has_minimum_data holds for spread iff ticks_success is
\* reported and is >= max(1, ceil(target_ticks * min_uptime)) with
\* target_ticks = max(1, ceil(duration_s / interval_s)), for depth iff
\* ticks_success >= 1, never for another stage, which is therefore recorded
\* failed with StageTimeoutError when it times out.
C6_MinimumDataFloored ==
    TimeoutClassified =>
        LET stage == LastProcessed.stage
            target_ticks == Max(1, Ceil(config.duration_s, config.interval_s))
            need == Max(1, Ceil(target_ticks * config.min_uptime_pct, UptimeDen))
        IN /\ stage = "spread" =>
                (has_minimum_data <=> ticks_success /= NoTicks /\ ticks_success >= need)
           /\ stage = "depth" => (has_minimum_data <=> ticks_success >= 1)
           /\ stage \notin {"spread", "depth"} =>
                /\ ~has_minimum_data
                /\ LastProcessed.status = "failed"
                /\ LastProcessed.error = StageTimeoutError

\* a spread stage timed out with no successful tick under min_uptime = 0:
\* the floor of one tick denies the minimum data
C6_Witness ==
    /\ TimeoutClassified
    /\ LastProcessed.stage = "spread"
    /\ config.min_uptime_pct = 0
    /\ ticks_success = 0
    /\ validate_outputs("spread", art)
    /\ LastProcessed.status = "failed"

----------------------------------------------------------------------------
(* C7 *)

\* C7, as stated: with fail_fast and without continue_on_error a recorded
\* failure makes run_pipeline return at once; with continue_on_error the
\* failure is recorded and the next plan entry is entered.
C7_FailurePolicy ==
    [][/\ RecordsFailure =>
            /\ options.fail_fast /\ ~options.continue_on_error => pc' = "returned"
            /\ options.continue_on_error /\ idx < Len(plan) =>
                  pc' = "enter" /\ idx' = idx + 1
       /\ NothingAfterReturn]_vars

\* C7, amended: with fail_fast and without continue_on_error a recorded
\* failure makes run_pipeline return at once; with continue_on_error a
\* failure of the body, of the deadline or of the output validation is
\* recorded and the next plan entry is entered, while a failure of the input
\* validation makes run_pipeline return at once.
C7_FailurePolicyButInputs ==
    [][/\ RecordsFailure =>
            /\ options.fail_fast /\ ~options.continue_on_error => pc' = "returned"
            /\ options.continue_on_error /\ idx < Len(plan) /\ pc = "start" =>
                  pc' = "enter" /\ idx' = idx + 1
            /\ pc = "enter" => pc' = "returned"
       /\ NothingAfterReturn]_vars

\* under continue_on_error and fail_fast a stage is entered after a failed one
C7_Witness ==
    /\ pc = "enter"
    /\ idx > 1
    /\ options.continue_on_error
    /\ options.fail_fast
    /\ processed[idx - 1].status = "failed"

----------------------------------------------------------------------------
(* C8 *)

\* C8: the value run_pipeline returns is the maximum over the plan entries
\* it processed of 0 (success, skipped, timeout), 3 (failed by an exception
\* or a timeout) and 4 (failed by input or output validation).
C8_ExitCodeIsMax == pc = "returned" => ret = MaxStageCode

\* a run returned 4 after a stage failed with 3 and a later one with 4
C8_Witness ==
    /\ pc = "returned"
    /\ ret = EXIT_VALIDATION_ERROR
    /\ \E i, j \in 1..Len(processed) :
          /\ i < j
          /\ StageCode(processed[i]) = EXIT_VALIDATION_ERROR
          /\ StageCode(processed[j]) = EXIT_STAGE_ERROR

----------------------------------------------------------------------------
(* C9 *)

\* C9, as stated: when a stage is recorded timeout as a partial success
\* (here under the policy partial_success) and no stage fails, the run ends
\* with exit code 0 and main derives a run_health other than "ok" from
\* metrics.json.
C9_DegradedHealth ==
    /\ pc = "done"
    /\ config.timeout_behavior = "partial_success"
    /\ \E i \in 1..Len(processed) : processed[i].status = "timeout"
    /\ \A i \in 1..Len(processed) : processed[i].status /= "failed"
    => ret = EXIT_OK /\ run_health /= "ok"

----------------------------------------------------------------------------
(* C10 *)

\* C10: when a stage body is about to start the file records the stage as
\* running, and when the next plan entry is entered or run_pipeline has
\* returned the file records the terminal status of the entry handled last.
C10_WrittenBeforeActing ==
    /\ pc = "start" => disk.exists /\ disk.stages[name].status = "running"
    /\ pc \in {"enter", "returned"} /\ processed /= <<>> =>
          /\ disk.exists
          /\ LastProcessed.status \in Terminal
          /\ disk.stages[LastProcessed.stage].status = LastProcessed.status

\* a body is about to start after an earlier entry of the plan has ended
C10_Witness ==
    /\ pc = "start"
    /\ idx > 1
    /\ disk.stages[name].status = "running"
    /\ disk.stages[plan[idx - 1]].status \in Terminal

----------------------------------------------------------------------------
(* C11 *)

\* run_pipeline is called on a run directory whose pipeline_state.json
\* parses and carries another spec_version
CalledOnOtherVersion ==
    /\ pc \in {"idle", "done"}
    /\ inv' = inv + 1
    /\ disk.exists
    /\ JsonLoads(disk)
    /\ disk.spec_version /= PIPELINE_SPEC_VERSION

----------------------------------------------------------------------------
(* C12 *)

\* C12, as stated: whatever the point at which the process is killed,
\* pipeline_state.json and metrics.json hold the complete content of a
\* write, and no later invocation fails to parse them.
C12_AtomicReplace ==
    /\ disk.exists => JsonLoads(disk)
    /\ metrics_json.file = "whole"
    /\ ret /= EXIT_UNCAUGHT

----------------------------------------------------------------------------
(* C13 *)

----------------------------------------------------------------------------
(* C14 *)

\* C14, as stated: the plan entries are handled one at a time in plan
\* order, an entry is entered only after the entries before it have been
\* given a terminal status, and the body of a stage is executed at most once
\* in an invocation.
C14_OneAtATime ==
    /\ pc \in {"enter", "start"} => Len(processed) = idx - 1
    /\ \A i \in 1..Len(processed) :
          /\ processed[i].stage = plan[i]
          /\ processed[i].status \in Terminal
    /\ \A i, j \in 1..Len(processed) :
          i < j /\ processed[i].body /\ processed[j].body =>
              processed[i].stage /= processed[j].stage

----------------------------------------------------------------------------
(* C15 *)

\* the list is a run of consecutive stages of STAGE_ORDER
ContiguousRun(stage_names) ==
    \E i, j \in 1..Len(STAGE_ORDER) : i <= j /\ stage_names = Window(i, j)

\* C15, as stated: build_stage_plan with an explicit stage list raises
\* ValueError unless the list is a contiguous run of the canonical order.
C15_RejectsNonContiguous ==
    pc = "planned" /\ args.stages /= <<>> /\ ~plan_error => ContiguousRun(args.stages)

----------------------------------------------------------------------------
(* scanner/mexc/client.py: MexcClient._request *)

\* a loop of one pass more than `attempts`
attempts_one_more == max_retries + 2

\* client.py 238
attempts == max_retries + 1

\* client.py 239
json_retry_budget == IF 2 < max_retries THEN 2 ELSE max_retries

\* client.py 71-74: record_request adds one to the counter of the label
record_request(counter, status) == [counter EXCEPT ![status] = @ + 1]

\* a record_retry that records nothing
record_nothing(counter, reason) == counter

\* client.py 76-78: record_retry adds one to the counter of the reason
record_retry(counter, reason) == [counter EXCEPT ![reason] = @ + 1]

\* an exhausted budget that raises the same class for every outcome
ErrorAlwaysTransient(o) == "TransientHttpError"

\* client.py 280, 298, 317, 334, 358, 380: the class raised when the
\* attempt is not retried
ErrorOnExhaustion(o) ==
    CASE o = "429" -> "RateLimitedError"
      [] o = "403" -> "WafLimitedError"
      [] OTHER -> "TransientHttpError"

\* client.py 276, 294, 313, 330, 353, 375: the attempt is followed by
\* another one; j is json_retry_count after the attempt
Retried(o, j) ==
    CASE o \in {"ok", "4xx"} -> FALSE
      [] o = "invalid_json" -> attempt <= max_retries /\ j <= json_retry_budget
      [] OTHER -> attempt <= max_retries

RECURSIVE SumOver(_, _)
\* the number of records of a counter
SumOver(counter, keys) ==
    IF keys = {} THEN 0
    ELSE LET k == CHOOSE x \in keys : TRUE
         IN counter[k] + SumOver(counter, keys \ {k})

Records(counter) == SumOver(counter, DOMAIN counter)

\* client.py 237-242: a caller enters _request; the loop has no pass when
\* attempts < 1 and line 386 raises
Request ==
    /\ rq \in {"idle", "returned", "raised"}
    /\ calls < MaxCalls
    /\ calls' = calls + 1
    /\ json_retry_count' = 0
    /\ outcomes' = <<>>
    /\ acquired' = 0
    /\ requests_before' = Records(http_requests_total)
    /\ retries_before' = Records(http_retries_total)
    /\ IF 1 <= attempts
       THEN /\ attempt' = 1
            /\ rq' = "acquire"
            /\ raised' = None
       ELSE /\ attempt' = 0
            /\ rq' = "raised"
            /\ raised' = "TransientHttpError"
    /\ UNCHANGED <<max_retries, http_requests_total, http_retries_total>>
    /\ UNCHANGED <<pipeline_vars, cli_vars, bucket_vars, analysis_vars>>

\* client.py 243: the pass begins with one acquire() on the rate limiter
Acquire ==
    /\ rq = "acquire"
    /\ acquired' = acquired + 1
    /\ rq' = "send"
    /\ UNCHANGED <<max_retries, attempt, json_retry_count, http_requests_total,
                   http_retries_total, raised, outcomes, calls, requests_before,
                   retries_before>>
    /\ UNCHANGED <<pipeline_vars, cli_vars, bucket_vars, analysis_vars>>

\* client.py 248-384: the rest of the pass, for the upstream outcome o
Attempt(o) ==
    /\ rq = "send"
    /\ outcomes' = Append(outcomes, o)
    /\ http_requests_total' = record_request(http_requests_total, status_label(o))
    /\ json_retry_count' = IF o = "invalid_json" THEN json_retry_count + 1
                           ELSE json_retry_count
    /\ IF o = "ok"
       THEN /\ rq' = "returned"
            /\ UNCHANGED <<attempt, http_retries_total, raised>>
       ELSE IF o = "4xx"
       THEN /\ rq' = "raised"
            /\ raised' = "FatalHttpError"
            /\ UNCHANGED <<attempt, http_retries_total>>
       ELSE IF Retried(o, json_retry_count')
       THEN /\ http_retries_total' = record_retry(http_retries_total, RetryReason(o))
            /\ IF attempt + 1 <= attempts
               THEN /\ attempt' = attempt + 1
                    /\ rq' = "acquire"
                    /\ UNCHANGED raised
               ELSE /\ rq' = "raised"
                    /\ raised' = "TransientHttpError"
                    /\ UNCHANGED attempt
       ELSE /\ rq' = "raised"
            /\ raised' = ErrorOnExhaustion(o)
            /\ UNCHANGED <<attempt, http_retries_total>>
    /\ UNCHANGED <<max_retries, acquired, calls, requests_before, retries_before>>
    /\ UNCHANGED <<pipeline_vars, cli_vars, bucket_vars, analysis_vars>>

\* a client of any configured max_retries; MexcConfig puts no constraint on
\* the field, and every value below zero gives a loop of no pass
InitClient ==
    /\ pc = "idle"
    /\ plan = <<>>
    /\ idx = 0
    /\ options = DefaultOptions
    /\ config = DefaultConfig
    /\ state = create_pipeline_state
    /\ disk = NoFile
    /\ art = [k \in ArtifactKinds |-> FALSE]
    /\ timed_out = FALSE
    /\ ticks_success = NoTicks
    /\ has_minimum_data = FALSE
    /\ failed = FALSE
    /\ exit_code = EXIT_OK
    /\ run_degraded = FALSE
    /\ ret = NoRet
    /\ client = ZeroClient
    /\ metrics_json = InitialMetricsJson
    /\ run_health = "ok"
    /\ processed = <<>>
    /\ inv = 0
    /\ prev_clean = FALSE
    /\ args = NoArgs
    /\ plan_error = FALSE
    /\ \E m \in -1..MaxRetries : MexcClient(m)
    /\ TokenBucket(PerTick(DEFAULT_MAX_RPS))
    /\ Observed(0)
    /\ AnalysisIdle

NextClient ==
    \/ Request
    \/ Acquire
    \/ \E o \in Outcomes : Attempt(o)

SpecClient == InitClient /\ [][NextClient]_vars

----------------------------------------------------------------------------
(* C16 *)

----------------------------------------------------------------------------
(* C17 *)

\* the outcome of the last attempt of the call
FinalOutcome == outcomes[Len(outcomes)]

\* the attempts of the call that met a body that is not JSON
InvalidJsonSeen == Cardinality({i \in 1..Len(outcomes) : outcomes[i] = "invalid_json"})

\* request and retry records added by the call
RequestsAdded == Records(http_requests_total) - requests_before
RetriesAdded == Records(http_retries_total) - retries_before

\* C17: the class of the error a call raises is the one of the outcome of
\* its final attempt.  A 4xx other than 403 and 429 ends the call at once
\* with FatalHttpError and without a retry record for that attempt.  Every
\* other error is raised only when the retry budget is used up (every attempt
\* made, or more than two bodies that are not JSON): RateLimitedError for
\* 429, WafLimitedError for 403, TransientHttpError for a 5xx, a timeout, a
\* connection error and a body that is not JSON.
C17_ErrorByFinalOutcome ==
    /\ \A i \in 1..Len(outcomes) :
          outcomes[i] = "4xx" =>
              /\ i = Len(outcomes)
              /\ rq = "raised"
              /\ raised = "FatalHttpError"
              /\ RetriesAdded = Len(outcomes) - 1
    /\ rq /= "raised" => raised = None
    /\ rq = "raised" /\ outcomes /= <<>> =>
          /\ FinalOutcome /= "ok"
          /\ raised = "FatalHttpError" <=> FinalOutcome = "4xx"
          /\ raised = "RateLimitedError" <=> FinalOutcome = "429"
          /\ raised = "WafLimitedError" <=> FinalOutcome = "403"
          /\ raised = "TransientHttpError" <=>
                FinalOutcome \in {"5xx", "timeout", "connection_error", "invalid_json"}
          /\ FinalOutcome /= "4xx" =>
                \/ Len(outcomes) = max_retries + 1
                \/ FinalOutcome = "invalid_json" /\ InvalidJsonSeen > 2

\* a 4xx met on a retry: the call raises FatalHttpError with attempts left
C17_Witness ==
    /\ rq = "raised"
    /\ raised = "FatalHttpError"
    /\ Len(outcomes) = 2
    /\ outcomes[1] = "403"
    /\ max_retries >= 2

----------------------------------------------------------------------------
(* C18 *)

\* C18, as stated: every call that has returned or raised added one request
\* record more than it added retry records.
C18_RequestsAreRetriesPlusOne ==
    rq \in {"returned", "raised"} => RequestsAdded = RetriesAdded + 1

\* C18, amended: every attempt adds exactly one request record and every
\* retry exactly one retry record, so a call that has returned or raised
\* after at least one attempt added one request record more than retry
\* records (outcomes 429, 429, 200 on a new client give three requests, two
\* of them labelled 429, and two rate_limited retries); a call on a client
\* whose max_retries is negative raises without any attempt and adds no
\* record at all.
C18_RecordsPerAttempt ==
    /\ RequestsAdded = Len(outcomes)
    /\ rq \in {"acquire", "send"} => RetriesAdded = Len(outcomes)
    /\ rq \in {"returned", "raised"} /\ outcomes /= <<>> => RequestsAdded = RetriesAdded + 1
    /\ rq \in {"returned", "raised"} /\ outcomes = <<>> =>
          /\ max_retries < 0
          /\ rq = "raised"
          /\ RequestsAdded = 0
          /\ RetriesAdded = 0
    /\ calls = 1 /\ outcomes = <<"429", "429", "ok">> =>
          /\ http_requests_total["429"] = 2
          /\ http_requests_total["200"] = 1
          /\ http_retries_total["rate_limited"] = 2
          /\ Records(http_retries_total) = 2

\* the second call on a client returns after two retried attempts
C18_Witness ==
    /\ calls = 2
    /\ rq = "returned"
    /\ Len(outcomes) = 3
    /\ RequestsAdded = 3
    /\ RetriesAdded = 2
    /\ requests_before > 0

----------------------------------------------------------------------------
(* scanner/mexc/ratelimit.py: TokenBucket.acquire *)

\* the observed window lasts 10 seconds
WindowTicks == 10 * TicksPerSecond

\* the clock is followed to the end of the latest window
MaxClock == MaxWindowStart + WindowTicks

\* a mutex that excludes nobody
LockIgnored == TRUE

\* ratelimit.py 19: `with self._lock` is entered when no caller holds it
LockFree == _lock = Unlocked

\* the positions of acquire inside `with self._lock`
InLock == {"locked", "check", "take"}

Min(a, b) == IF a < b THEN a ELSE b

\* the least number of clock ticks that lasts `units / r` ticks or more
CeilDiv(units, r) == (units + r - 1) \div r

\* time.monotonic() advances by one tick; the statements inside
\* `with self._lock` take no time
TimePasses ==
    /\ clock < MaxClock
    /\ _lock = Unlocked
    /\ clock' = clock + 1
    /\ UNCHANGED <<_rate, _capacity, _tokens, _updated_at, _lock, at, wake_at,
                   window_start, returned_in_window, granted>>
    /\ UNCHANGED <<pipeline_vars, cli_vars, request_vars, analysis_vars>>

\* ratelimit.py 17-18: caller t calls acquire()
CallAcquire(t) ==
    /\ at[t] = "out"
    /\ at' = [at EXCEPT ![t] = "top"]
    /\ UNCHANGED <<_rate, _capacity, _tokens, _updated_at, _lock, clock, wake_at,
                   window_start, returned_in_window, granted>>
    /\ UNCHANGED <<pipeline_vars, cli_vars, request_vars, analysis_vars>>

\* ratelimit.py 19: caller t takes the lock
Lock(t) ==
    /\ at[t] = "top"
    /\ LockFree
    /\ _lock' = t
    /\ at' = [at EXCEPT ![t] = "locked"]
    /\ UNCHANGED <<_rate, _capacity, _tokens, _updated_at, clock, wake_at,
                   window_start, returned_in_window, granted>>
    /\ UNCHANGED <<pipeline_vars, cli_vars, request_vars, analysis_vars>>

\* ratelimit.py 20-24: caller t reads the clock and refills the bucket
Refill(t) ==
    /\ at[t] = "locked"
    /\ LET now == clock
           elapsed == now - _updated_at
       IN IF elapsed > 0
          THEN /\ _tokens' = Min(_capacity, _tokens + elapsed * _rate)
               /\ _updated_at' = now
          ELSE UNCHANGED <<_tokens, _updated_at>>
    /\ at' = [at EXCEPT ![t] = "check"]
    /\ UNCHANGED <<_rate, _capacity, _lock, clock, wake_at,
                   window_start, returned_in_window, granted>>
    /\ UNCHANGED <<pipeline_vars, cli_vars, request_vars, analysis_vars>>

\* ratelimit.py 26, 30-33: caller t finds a whole token, or computes
\* wait_time, leaves the lock and sleeps
Check(t) ==
    /\ at[t] = "check"
    /\ IF _tokens >= UnitsPerToken
       THEN /\ at' = [at EXCEPT ![t] = "take"]
            /\ UNCHANGED <<_lock, wake_at>>
       ELSE /\ at' = [at EXCEPT ![t] = "sleep"]
            /\ wake_at' = [wake_at EXCEPT ![t] = clock + CeilDiv(UnitsPerToken - _tokens, _rate)]
            /\ _lock' = Unlocked
    /\ UNCHANGED <<_rate, _capacity, _tokens, _updated_at, clock,
                   window_start, returned_in_window, granted>>
    /\ UNCHANGED <<pipeline_vars, cli_vars, request_vars, analysis_vars>>

\* ratelimit.py 27-28: caller t takes one token, leaves the lock and returns
Take(t) ==
    /\ at[t] = "take"
    /\ _tokens' = _tokens - UnitsPerToken
    /\ _lock' = Unlocked
    /\ at' = [at EXCEPT ![t] = "out"]
    /\ granted' = granted + 1
    /\ returned_in_window' =
          IF window_start <= clock /\ clock <= window_start + WindowTicks
          THEN returned_in_window + 1
          ELSE returned_in_window
    /\ UNCHANGED <<_rate, _capacity, _updated_at, clock, wake_at, window_start>>
    /\ UNCHANGED <<pipeline_vars, cli_vars, request_vars, analysis_vars>>

\* ratelimit.py 32-33, 18: the sleep of caller t ends, not before wait_time
\* has passed, and the loop starts over
Wake(t) ==
    /\ at[t] = "sleep"
    /\ clock >= wake_at[t]
    /\ at' = [at EXCEPT ![t] = "top"]
    /\ UNCHANGED <<_rate, _capacity, _tokens, _updated_at, _lock, clock, wake_at,
                   window_start, returned_in_window, granted>>
    /\ UNCHANGED <<pipeline_vars, cli_vars, request_vars, analysis_vars>>

\* a new bucket of any of the rates, and any window start
InitBucket ==
    /\ pc = "idle"
    /\ plan = <<>>
    /\ idx = 0
    /\ options = DefaultOptions
    /\ config = DefaultConfig
    /\ state = create_pipeline_state
    /\ disk = NoFile
    /\ art = [k \in ArtifactKinds |-> FALSE]
    /\ timed_out = FALSE
    /\ ticks_success = NoTicks
    /\ has_minimum_data = FALSE
    /\ failed = FALSE
    /\ exit_code = EXIT_OK
    /\ run_degraded = FALSE
    /\ ret = NoRet
    /\ client = ZeroClient
    /\ metrics_json = InitialMetricsJson
    /\ run_health = "ok"
    /\ processed = <<>>
    /\ inv = 0
    /\ prev_clean = FALSE
    /\ args = NoArgs
    /\ plan_error = FALSE
    /\ MexcClient(DEFAULT_MAX_RETRIES)
    /\ \E r \in Rates : TokenBucket(r)
    /\ \E w \in 0..MaxWindowStart : Observed(w)
    /\ AnalysisIdle

NextBucket ==
    \/ TimePasses
    \/ \E t \in Callers : CallAcquire(t)
    \/ \E t \in Callers : Lock(t)
    \/ \E t \in Callers : Refill(t)
    \/ \E t \in Callers : Check(t)
    \/ \E t \in Callers : Take(t)
    \/ \E t \in Callers : Wake(t)

SpecBucket == InitBucket /\ [][NextBucket]_vars

----------------------------------------------------------------------------
(* C19 *)

\* C19: with capacity equal to the rate R = max_rps, the acquire() calls
\* that return within a window of 10 seconds are never more than
\* max_rps * 10 * 1.10, whenever the window starts.  (_rate * TicksPerSecond
\* / UnitsPerToken is max_rps.)
C19_WindowThroughput ==
    returned_in_window * UnitsPerToken * 100 <= _rate * TicksPerSecond * 10 * 110

\* the bound is met: a window that starts on a full bucket and in which
\* every token is taken
C19_Witness ==
    /\ returned_in_window >= 11
    /\ returned_in_window * UnitsPerToken * 100 = _rate * TicksPerSecond * 10 * 110

----------------------------------------------------------------------------
(* C20 *)

\* C20: under every interleaving of the callers, a caller is between the
\* clock reading and the decrement only while it holds the mutex, so at most
\* one is; the token count stays within [0, capacity]; and the whole tokens
\* taken by the returned calls, one each, together with the tokens left
\* never exceed the capacity plus the refill up to _updated_at, so no token is
\* taken twice.
C20_MutexSafe ==
    /\ \A t \in Callers : at[t] \in InLock => _lock = t
    /\ 0 <= _tokens /\ _tokens <= _capacity
    /\ granted * UnitsPerToken + _tokens <= _capacity + _rate * _updated_at

\* a caller is about to take the last whole token while the other waits for
\* the lock, after one call has returned
C20_Witness ==
    \E t, u \in Callers :
        /\ at[t] = "take"
        /\ at[u] = "top"
        /\ _tokens >= UnitsPerToken
        /\ _tokens < 2 * UnitsPerToken
        /\ granted >= 1

\* ======================================================================
\* scanner/pipeline/spread_sampling.py: run_spread_sampling, the loop of
\* the spread stage; scanner/analytics/spread_stats.py: the statistics
\* computed from the raw file the loop wrote.
\*
\* `sampling` is the frame of one call of run_spread_sampling: its
\* arguments, its locals (tick_idx, tick_success, tick_fail,
\* invalid_count, missing_count, payload, symbols_seen), the lines the raw
\* writer appended, and the number of HTTP requests it made.  Prices are
\* the numbers the payload's strings denote; Unparsable stands for every
\* text float() rejects.  The loop never reads the clock for anything but
\* its sleep, so time is left out of the frame.
\* ======================================================================

MaxDuration == 2

MaxEntries == 2

Unparsable == -9

NoFloat == -10

_parse_float(value) == IF value = Unparsable THEN NoFloat ELSE value

SymbolLists == {<<"AAA">>, <<"AAA", "BBB">>}

PayloadSymbols == {"AAA", "BBB", "ZZZ"}

QuoteCases == {<<1, 2>>, <<2, 1>>, <<2, 2>>, <<0, 1>>, <<Unparsable, 1>>}

Entries == [symbol : PayloadSymbols, quote : QuoteCases]

Payloads == UNION {[1..n -> Entries] : n \in 0..MaxEntries}

SpreadConfigs ==
    [ duration_s       : 0..MaxDuration,
      interval_s       : {0, 1},
      allow_per_symbol : BOOLEAN,
      per_symbol_limit : {1, 2},
      raw_enabled      : BOOLEAN ]

\* the keyword the caller passes for the deadline: "absent" is a call
\* without the keyword, the others are a call with deadline_ts=...
DeadlineArgs == {"absent", "none", "past", "future"}

Range(s) == {s[i] : i \in 1..Len(s)}

\* lines 129-151: the entries of one payload, in order
RECURSIVE ScanPayload(_, _, _, _)
ScanPayload(payload, universe_set, raw_enabled, acc) ==
    IF payload = <<>> THEN acc
    ELSE LET entry == Head(payload)
             bid   == _parse_float(entry.quote[1])
             ask   == _parse_float(entry.quote[2])
             next  ==
                 IF entry.symbol \notin universe_set THEN acc
                 ELSE IF bid = NoFloat \/ ask = NoFloat \/ bid <= 0 \/ ask <= 0
                 THEN [acc EXCEPT !.invalid = @ + 1]
                 ELSE [acc EXCEPT
                         !.symbols_seen = @ \cup {entry.symbol},
                         !.written = IF raw_enabled
                                     THEN Append(@, [symbol |-> entry.symbol,
                                                     bid |-> entry.quote[1],
                                                     ask |-> entry.quote[2]])
                                     ELSE @]
         IN ScanPayload(Tail(payload), universe_set, raw_enabled, next)

NothingScanned == [invalid |-> 0, symbols_seen |-> {}, written |-> <<>>]

target_ticks(cfg) == Max(1, Ceil(cfg.duration_s, cfg.interval_s))

\* lines 129-171: what every tick does after the fetch
FinishTick(f, payload, obtained, success, skipped, made) ==
    LET universe_set == Range(f.symbols)
        scan == IF payload # <<>>
                THEN ScanPayload(payload, universe_set, f.cfg.raw_enabled,
                                 NothingScanned)
                ELSE NothingScanned
        missing_for_tick == Cardinality(universe_set \ scan.symbols_seen)
    IN [f EXCEPT
          !.tick_idx = @ + 1,
          !.tick_success = @ + (IF success THEN 1 ELSE 0),
          !.tick_fail = @ + (IF success THEN 0 ELSE 1),
          !.invalid_count = @ + scan.invalid,
          !.missing_count = @ + skipped
                              + (IF obtained THEN missing_for_tick ELSE 0),
          !.raw = @ \o scan.written,
          !.payload = payload,
          !.payload_is_none = ~obtained,
          !.symbols_seen = scan.symbols_seen,
          !.requests = @ + made]

\* lines 32-57: the call.  The signature has no deadline_ts parameter, so
\* a call that passes the keyword raises TypeError before the body runs.
CallRunSpreadSampling(symbols, cfg, deadline_ts) ==
    /\ sampling = NotSampling
    /\ call = NoCall
    /\ sampling' =
         LET f == [ pc |-> "loop", symbols |-> symbols, cfg |-> cfg,
                    deadline_ts |-> deadline_ts, error |-> None,
                    tick_idx |-> 0, tick_success |-> 0, tick_fail |-> 0,
                    invalid_count |-> 0, missing_count |-> 0, raw |-> <<>>,
                    payload |-> <<>>, payload_is_none |-> TRUE,
                    symbols_seen |-> {}, requests |-> 0 ]
         IN IF deadline_ts # "absent"
            THEN [f EXCEPT !.pc = "raised", !.error = "TypeError"]
            ELSE IF cfg.interval_s <= 0 \/ cfg.duration_s <= 0
            THEN [f EXCEPT !.pc = "raised", !.error = "ValueError"]
            ELSE f
    /\ UNCHANGED <<base_vars, depth_check, call>>

Ticking ==
    /\ sampling.pc = "loop"
    /\ sampling.tick_idx < target_ticks(sampling.cfg)

\* lines 65-69: the bulk fetch answered
SpreadTickBulk(payload) ==
    /\ Ticking
    /\ sampling' = FinishTick(sampling, payload, TRUE, TRUE, 0, 1)
    /\ UNCHANGED <<base_vars, depth_check, call>>

PerSymbolReplies(symbols) ==
    [1..Len(symbols) -> [ok : BOOLEAN, quote : QuoteCases]]

RECURSIVE per_symbol_payload(_, _, _)
per_symbol_payload(symbols, replies, i) ==
    IF i > Len(symbols) THEN <<>>
    ELSE (IF replies[i].ok
          THEN <<[symbol |-> symbols[i], quote |-> replies[i].quote]>>
          ELSE <<>>) \o per_symbol_payload(symbols, replies, i + 1)

\* lines 70-109: the bulk fetch raised FatalHttpError
SpreadTickFatal(replies) ==
    /\ Ticking
    /\ replies \in PerSymbolReplies(sampling.symbols)
    /\ sampling' =
         IF sampling.cfg.allow_per_symbol
         THEN IF Len(sampling.symbols) > sampling.cfg.per_symbol_limit
              THEN FinishTick(sampling, <<>>, FALSE, FALSE,
                              Len(sampling.symbols), 1)
              ELSE LET p == per_symbol_payload(sampling.symbols, replies, 1)
                   IN IF p # <<>>
                      THEN FinishTick(sampling, p, TRUE, TRUE, 0,
                                      1 + Len(sampling.symbols))
                      ELSE FinishTick(sampling, <<>>, FALSE, FALSE, 0,
                                      1 + Len(sampling.symbols))
         ELSE FinishTick(sampling, <<>>, FALSE, FALSE, 0, 1)
    /\ UNCHANGED <<base_vars, depth_check, call>>

\* lines 118-127: the bulk fetch raised RateLimitedError or
\* TransientHttpError
SpreadTickFail ==
    /\ Ticking
    /\ sampling' = FinishTick(sampling, <<>>, FALSE, FALSE, 0, 1)
    /\ UNCHANGED <<base_vars, depth_check, call>>

\* WafLimitedError is in no except clause of the loop: it leaves the
\* function through the finally block
SpreadTickWaf ==
    /\ Ticking
    /\ sampling' = [sampling EXCEPT !.pc = "raised",
                                    !.error = "WafLimitedError",
                                    !.requests = @ + 1]
    /\ UNCHANGED <<base_vars, depth_check, call>>

\* lines 172-202: the loop is over; SpreadSampleResult is built without
\* its required fields timed_out and elapsed_s (models/spread.py 14-43),
\* so the constructor raises TypeError and no result is returned
SpreadReturn ==
    /\ sampling.pc = "loop"
    /\ sampling.tick_idx >= target_ticks(sampling.cfg)
    /\ sampling' = [sampling EXCEPT !.pc = "raised", !.error = "TypeError"]
    /\ UNCHANGED <<base_vars, depth_check, call>>

\* ---- scanner/models/spread.py, scanner/analytics/spread_stats.py ----
\* Spreads are held in units of 1/BpsUnits of a basis point, which is
\* exact for the prices drawn here.
BpsUnits == 60

MIN_SAMPLE_COUNT == 3

NoBps == -1000000000

SampleQuotes == {<<1, 2>>, <<1, 3>>, <<2, 1>>, <<2, 2>>, <<0, 0>>}

MaxSamples == 4

SampleLists ==
    UNION {[1..n -> [symbol : {"AAA"}, quote : SampleQuotes]] : n \in 0..MaxSamples}

\* models/spread.py 70-74: the mid is tested through twice its value
compute_spread_bps(bid, ask) ==
    IF bid + ask <= 0
    THEN [error |-> "ValueError", value |-> NoBps]
    ELSE [error |-> None,
          value |-> ((ask - bid) * 20000 * BpsUnits) \div (bid + ask)]

\* spread_stats.py 188-199: the spreads of the samples that did not raise
RECURSIVE spreads(_)
spreads(samples) ==
    IF samples = <<>> THEN <<>>
    ELSE LET r == compute_spread_bps(Head(samples).quote[1],
                                     Head(samples).quote[2])
         IN (IF r.error = None THEN <<r.value>> ELSE <<>>)
            \o spreads(Tail(samples))

\* statistics.median of a sorted list
median(sorted_values) ==
    LET n == Len(sorted_values)
    IN IF n % 2 = 1 THEN sorted_values[(n + 1) \div 2]
       ELSE (sorted_values[n \div 2] + sorted_values[n \div 2 + 1]) \div 2

\* a percentile without interpolation: the value at the lower index
_percentile_lower(sorted_values, num, den) ==
    sorted_values[(num * (Len(sorted_values) - 1)) \div den + 1]

\* spread_stats.py 135-151, percentile = num / den; indices from 1
_percentile(sorted_values, num, den) ==
    LET n     == Len(sorted_values)
        lower == (num * (n - 1)) \div den
        rest  == (num * (n - 1)) % den
    IN IF n = 1 THEN sorted_values[1]
       ELSE IF rest = 0 THEN sorted_values[lower + 1]
       ELSE sorted_values[lower + 1]
            + ((sorted_values[lower + 2] - sorted_values[lower + 1]) * rest)
              \div den

\* spread_stats.py 183-231
compute_spread_stats(samples) ==
    IF samples = <<>> THEN [error |-> "ValueError"]
    ELSE LET sp     == spreads(samples)
             sorted == SortSeq(sp, LAMBDA a, b : a < b)
             some   == sp # <<>>
         IN [ error |-> None,
              symbol |-> samples[1].symbol,
              sample_count |-> Len(samples),
              valid_samples |-> Len(sp),
              invalid_quotes |-> Len(samples) - Len(sp),
              spreads_sorted |-> sorted,
              spread_median_bps |-> IF some THEN median(sorted) ELSE NoBps,
              spread_p10_bps |-> IF some THEN _percentile(sorted, 10, 100) ELSE NoBps,
              spread_p25_bps |-> IF some THEN _percentile(sorted, 25, 100) ELSE NoBps,
              spread_p90_bps |-> IF some THEN _percentile(sorted, 90, 100) ELSE NoBps,
              uptime |-> <<Len(sp), Len(samples)>>,
              insufficient_samples |-> Len(sp) < MIN_SAMPLE_COUNT ]

CallComputeSpreadStats(samples) ==
    /\ sampling = NotSampling
    /\ call = NoCall
    /\ call' = [ fn |-> "compute_spread_stats", samples |-> samples,
                 result |-> compute_spread_stats(samples) ]
    /\ UNCHANGED <<base_vars, sampling, depth_check>>

InitSpread == PipelineIdle /\ AnalysisIdle

NextSpread ==
    \/ \E symbols \in SymbolLists, cfg \in SpreadConfigs,
          deadline_ts \in DeadlineArgs :
            CallRunSpreadSampling(symbols, cfg, deadline_ts)
    \/ \E payload \in Payloads : SpreadTickBulk(payload)
    \/ \E n \in 1..2 : \E replies \in [1..n -> [ok : BOOLEAN, quote : QuoteCases]] :
            SpreadTickFatal(replies)
    \/ SpreadTickFail
    \/ SpreadTickWaf
    \/ SpreadReturn
    \/ \E samples \in SampleLists : CallComputeSpreadStats(samples)

SpecSpread == InitSpread /\ [][NextSpread]_vars

\* ---- C21 ----
\* C21: a call of the spread sampling loop whose deadline is already past
\* on entry ends by returning a result with timed_out = true, having made
\* no HTTP request and counted no tick, neither successful nor failed.
C21_PastDeadlineReturnsTimedOut ==
    (/\ sampling.pc \notin {"idle", "loop"}
     /\ sampling.deadline_ts = "past")
    => /\ sampling.pc = "returned"
       /\ sampling.result.timed_out
       /\ sampling.requests = 0
       /\ sampling.tick_success = 0
       /\ sampling.tick_fail = 0

\* ---- C22 ----
\* a quote the specification calls invalid: bid >= ask, or the mid
\* (bid + ask) / 2 not positive
InvalidQuote(bid, ask) == bid >= ask \/ bid + ask <= 0

ValidCount(samples) ==
    Cardinality({i \in 1..Len(samples) :
                   ~InvalidQuote(samples[i].quote[1], samples[i].quote[2])})

\* C22: no line of the raw file holds a quote with bid >= ask or with a
\* mid that is not positive, and compute_spread_stats counts exactly the
\* other samples as valid_samples, the invalid ones as invalid_quotes.
C22_InvalidQuotesRejected ==
    /\ sampling.pc # "idle" =>
         \A i \in 1..Len(sampling.raw) :
            ~InvalidQuote(sampling.raw[i].bid, sampling.raw[i].ask)
    /\ (call.fn = "compute_spread_stats" /\ call.result.error = None) =>
         /\ call.result.valid_samples = ValidCount(call.samples)
         /\ call.result.invalid_quotes
              = Len(call.samples) - ValidCount(call.samples)

\* ---- C23 ----
\* C23: a tick of the spread sampling loop adds to missing_quotes the
\* number of universe symbols it did not observe when it obtained a
\* payload, and nothing when it obtained none.
C23_MissingOnlyWithPayload ==
    [][(/\ sampling.pc = "loop"
        /\ sampling'.pc = "loop"
        /\ sampling'.tick_idx = sampling.tick_idx + 1)
       => sampling'.missing_count
            = sampling.missing_count
              + (IF sampling'.payload_is_none THEN 0
                 ELSE Cardinality(Range(sampling.symbols)
                                    \ sampling'.symbols_seen))]_vars

\* ======================================================================
\* scanner/analytics/scoring.py: score_symbol.
\*
\* Spreads, fees and thresholds are whole basis points, uptime is in
\* percent (so uptime * 100 of line 259 is the percent itself), and NoBps
\* is Python's None for an optional number of basis points.  A
\* configuration `declares` the attributes score_symbol reads beyond those
\* scanner/config.py gives its models (median_min_bps, p90_min_bps,
\* edge_min_bps, buffer_bps) or it does not; reading an attribute that is
\* not declared raises AttributeError.
\* ======================================================================

Missing24h == -1

Enrichments ==
    [ quote_volume_24h   : {Missing24h, 1000},
      trades_24h         : {Missing24h, 500},
      mid_price          : {Missing24h, 2},
      missing_24h_stats  : BOOLEAN,
      missing_24h_reason : {None, "no_ticker"} ]

CoreStats ==
    [ insufficient_samples : BOOLEAN,
      invalid_quotes       : {0, 1},
      uptime               : {50, 100},
      spread_median_bps    : {NoBps, 5, 20, 40},
      spread_p10_bps       : {NoBps, 10},
      spread_p25_bps       : {NoBps, 15},
      spread_p90_bps       : {NoBps, 30, 70} ]

ScoreConfigs ==
    [ declares       : BOOLEAN,
      uptime_min     : {90},
      median_min_bps : {8},
      median_max_bps : {25},
      p90_min_bps    : {0},
      p90_max_bps    : {35, 80},
      edge_min_bps   : {3, 20},
      buffer_bps     : {2},
      maker_bps      : {2},
      taker_bps      : {4} ]

\* scoring.py 85-109
_edge_mm_bps(stats, cfg) ==
    IF stats.spread_median_bps = NoBps THEN NoBps
    ELSE stats.spread_median_bps - 2 * cfg.maker_bps - cfg.buffer_bps

\* scoring.py 112-136
_edge_mt_bps(stats, cfg) ==
    IF stats.spread_median_bps = NoBps THEN NoBps
    ELSE stats.spread_median_bps - (cfg.maker_bps + cfg.taker_bps)
           - cfg.buffer_bps

\* scoring.py 139-163
_edge_mm_p25_bps(stats, cfg) ==
    IF stats.spread_p25_bps = NoBps THEN NoBps
    ELSE stats.spread_p25_bps - 2 * cfg.maker_bps - cfg.buffer_bps

\* scoring.py 166-182
_net_edge_bps(stats, cfg) == _edge_mm_bps(stats, cfg)

Reason(cond, code) == IF cond THEN <<code>> ELSE <<>>

\* the list without the edge test of lines 238-240
fail_reasons_forget_edge(stats, cfg) ==
    Reason(stats.insufficient_samples, "insufficient_samples")
    \o Reason(stats.invalid_quotes > 0, "invalid_quotes")
    \o Reason(stats.uptime < cfg.uptime_min, "low_uptime")
    \o (IF stats.spread_median_bps = NoBps \/ stats.spread_p90_bps = NoBps
        THEN Reason(~stats.insufficient_samples, "insufficient_samples")
        ELSE Reason(stats.spread_median_bps < cfg.median_min_bps,
                    "spread_median_low")
             \o Reason(stats.spread_median_bps > cfg.median_max_bps,
                       "spread_median_high")
             \o Reason(stats.spread_p90_bps < cfg.p90_min_bps,
                       "spread_p90_low")
             \o Reason(stats.spread_p90_bps > cfg.p90_max_bps,
                       "spread_p90_high"))

\* scoring.py 214-240: the list, in the order of the appends
fail_reasons(stats, cfg) ==
    LET first == Reason(stats.insufficient_samples, "insufficient_samples")
                 \o Reason(stats.invalid_quotes > 0, "invalid_quotes")
                 \o Reason(stats.uptime < cfg.uptime_min, "low_uptime")
        corridor ==
            IF stats.spread_median_bps = NoBps \/ stats.spread_p90_bps = NoBps
            THEN Reason("insufficient_samples" \notin Range(first),
                        "insufficient_samples")
            ELSE Reason(stats.spread_median_bps < cfg.median_min_bps,
                        "spread_median_low")
                 \o Reason(stats.spread_median_bps > cfg.median_max_bps,
                           "spread_median_high")
                 \o Reason(stats.spread_p90_bps < cfg.p90_min_bps,
                           "spread_p90_low")
                 \o Reason(stats.spread_p90_bps > cfg.p90_max_bps,
                           "spread_p90_high")
        edge_mm_bps == _edge_mm_bps(stats, cfg)
    IN first \o corridor
       \o Reason(edge_mm_bps # NoBps /\ edge_mm_bps < cfg.edge_min_bps,
                 "edge_mm_low")

\* a conjunction that also wants the 24-hour statistics present
pass_spread_needs_24h(stats, cfg) ==
    /\ ~stats.missing_24h_stats
    /\ stats.spread_median_bps # NoBps
    /\ stats.spread_p90_bps # NoBps
    /\ stats.uptime >= cfg.uptime_min
    /\ stats.invalid_quotes = 0
    /\ ~stats.insufficient_samples
    /\ stats.spread_median_bps >= cfg.median_min_bps
    /\ stats.spread_median_bps <= cfg.median_max_bps
    /\ stats.spread_p90_bps >= cfg.p90_min_bps
    /\ stats.spread_p90_bps <= cfg.p90_max_bps
    /\ _edge_mm_bps(stats, cfg) >= cfg.edge_min_bps

\* scoring.py 261-273
pass_spread(stats, cfg) ==
    LET edge_mm_bps == _edge_mm_bps(stats, cfg)
    IN /\ stats.spread_median_bps # NoBps
       /\ stats.spread_p90_bps # NoBps
       /\ stats.uptime >= cfg.uptime_min
       /\ stats.invalid_quotes = 0
       /\ ~stats.insufficient_samples
       /\ stats.spread_median_bps >= cfg.median_min_bps
       /\ stats.spread_median_bps <= cfg.median_max_bps
       /\ stats.spread_p90_bps >= cfg.p90_min_bps
       /\ stats.spread_p90_bps <= cfg.p90_max_bps
       /\ edge_mm_bps # NoBps
       /\ edge_mm_bps >= cfg.edge_min_bps

\* scoring.py 254-259
score(stats, cfg) ==
    LET edge_mm_bps == _edge_mm_bps(stats, cfg)
        volatility_penalty ==
            IF stats.spread_p90_bps # NoBps /\ stats.spread_p10_bps # NoBps
            THEN Max(stats.spread_p90_bps - stats.spread_p10_bps, 0)
            ELSE 0
        base_edge == Max(IF edge_mm_bps = NoBps THEN 0 ELSE edge_mm_bps, 0)
    IN base_edge + stats.uptime - volatility_penalty

\* the first read of an attribute the configuration does not declare:
\* line 227 or 231 in the corridor tests, 108 in _edge_mm_bps, 162 in
\* _edge_mm_p25_bps
ReadsUndeclared(stats, cfg) ==
    /\ ~cfg.declares
    /\ \/ stats.spread_median_bps # NoBps
       \/ stats.spread_p25_bps # NoBps

\* scoring.py 185-285
score_symbol(stats, cfg) ==
    IF ReadsUndeclared(stats, cfg) THEN [error |-> "AttributeError"]
    ELSE [ error |-> None,
           spread_stats |-> stats,
           edge_mm_bps |-> _edge_mm_bps(stats, cfg),
           edge_mm_p25_bps |-> _edge_mm_p25_bps(stats, cfg),
           edge_mt_bps |-> _edge_mt_bps(stats, cfg),
           net_edge_bps |-> _net_edge_bps(stats, cfg),
           pass_spread |-> pass_spread(stats, cfg),
           score |-> score(stats, cfg),
           fail_reasons |-> fail_reasons(stats, cfg) ]

\* stages.py 529-541: the statistics with the 24-hour fields filled in
Enriched(core, enrichment) ==
    [ insufficient_samples |-> core.insufficient_samples,
      invalid_quotes |-> core.invalid_quotes,
      uptime |-> core.uptime,
      spread_median_bps |-> core.spread_median_bps,
      spread_p10_bps |-> core.spread_p10_bps,
      spread_p25_bps |-> core.spread_p25_bps,
      spread_p90_bps |-> core.spread_p90_bps,
      quote_volume_24h |-> enrichment.quote_volume_24h,
      trades_24h |-> enrichment.trades_24h,
      mid_price |-> enrichment.mid_price,
      missing_24h_stats |-> enrichment.missing_24h_stats,
      missing_24h_reason |-> enrichment.missing_24h_reason ]

CallScoreSymbol(core, enrichment, cfg) ==
    /\ call = NoCall
    /\ call' = [ fn |-> "score_symbol", core |-> core,
                 stats |-> Enriched(core, enrichment), cfg |-> cfg,
                 result |-> score_symbol(Enriched(core, enrichment), cfg) ]
    /\ UNCHANGED <<base_vars, sampling, depth_check>>

InitScore == PipelineIdle /\ AnalysisIdle

NextScore ==
    /\ call = NoCall
    /\ \E core \in CoreStats, enrichment \in Enrichments, cfg \in ScoreConfigs :
          CallScoreSymbol(core, enrichment, cfg)

SpecScore == InitScore /\ [][NextScore]_vars

Scored == call.fn = "score_symbol" /\ call.result.error = None

MaxCandidates == 3

CandidateSymbols == <<"AAA", "BBB", "CCC">>

SymbolRank(symbol) ==
    CHOOSE i \in 1..Len(CandidateSymbols) : CandidateSymbols[i] = symbol

CandidateItems ==
    [ kind : {"ScoreResult"}, symbol : Range(CandidateSymbols),
      pass_spread : BOOLEAN, score : {1, 2} ]
    \cup [ kind : {"str"}, symbol : Range(CandidateSymbols),
           pass_spread : {FALSE}, score : {0} ]

\* lists of candidates, one entry per symbol at most
CandidateLists ==
    UNION {{c \in [1..n -> CandidateItems] :
              \A i, j \in 1..n : c[i].symbol = c[j].symbol => i = j}
           : n \in 0..MaxCandidates}

CandidateLimits == {0, 1, 2}

\* selected[:limit] under `if limit > 0`
Truncated(selected, limit) ==
    IF limit > 0 THEN SubSeq(selected, 1, Min(limit, Len(selected)))
    ELSE selected

\* sorted(..., key=lambda item: (-item.score, item.symbol))
ByScoreThenSymbol(a, b) ==
    \/ a.score > b.score
    \/ a.score = b.score /\ SymbolRank(a.symbol) < SymbolRank(b.symbol)

SymbolsOf(items) == [i \in 1..Len(items) |-> items[i].symbol]

\* depth_check.py 77-101
_select_candidates(candidates, limit) ==
    LET score_items == SelectSeq(candidates, LAMBDA item : item.kind = "ScoreResult")
        passed == SelectSeq(score_items, LAMBDA item : item.pass_spread)
    IN IF candidates = <<>>
       THEN [error |-> None, selected |-> <<>>, pass_spread_total |-> 0]
       ELSE IF \A i \in 1..Len(candidates) : candidates[i].kind = "str"
       THEN [error |-> None,
             selected |-> Truncated(SymbolsOf(candidates), limit),
             pass_spread_total |-> 0]
       ELSE IF score_items = <<>>
       THEN [error |-> "ValueError", selected |-> <<>>, pass_spread_total |-> 0]
       ELSE IF passed # <<>>
       THEN [error |-> None,
             selected |-> SymbolsOf(Truncated(SortSeq(passed, ByScoreThenSymbol),
                                              limit)),
             pass_spread_total |-> Len(passed)]
       ELSE [error |-> None,
             selected |-> SymbolsOf(Truncated(SortSeq(score_items,
                                                      ByScoreThenSymbol),
                                              limit)),
             pass_spread_total |-> Len(passed)]

CallSelectCandidates(candidates, limit) ==
    /\ call = NoCall
    /\ call' = [ fn |-> "_select_candidates", candidates |-> candidates,
                 limit |-> limit,
                 result |-> _select_candidates(candidates, limit) ]
    /\ UNCHANGED <<base_vars, sampling, depth_check>>

InitSelect == PipelineIdle /\ AnalysisIdle

NextSelect ==
    /\ call = NoCall
    /\ \E candidates \in CandidateLists, limit \in CandidateLimits :
          CallSelectCandidates(candidates, limit)

SpecSelect == InitSelect /\ [][NextSelect]_vars

\* ---- C26 ----
\* the candidates of a call that passed spread
PassedSpread(candidates) ==
    {candidates[i] : i \in {k \in 1..Len(candidates) : candidates[k].pass_spread}}

OnlyScoreResults(candidates) ==
    \A i \in 1..Len(candidates) : candidates[i].kind = "ScoreResult"

ItemOf(candidates, symbol) ==
    CHOOSE item \in Range(candidates) : item.symbol = symbol

\* C26: from a list of ScoreResult the selection returns only symbols
\* that passed spread, by descending score then ascending symbol, as many
\* as passed up to candidates_limit, and nothing when no symbol passed.
C26_SelectsPassedOnly ==
    (call.fn = "_select_candidates" /\ OnlyScoreResults(call.candidates)) =>
        LET selected == call.result.selected
            passed == PassedSpread(call.candidates)
        IN /\ call.result.error = None
           /\ \A i \in 1..Len(selected) :
                 \E item \in passed : item.symbol = selected[i]
           /\ \A i, j \in 1..Len(selected) :
                 i < j => ByScoreThenSymbol(ItemOf(call.candidates, selected[i]),
                                            ItemOf(call.candidates, selected[j]))
           /\ Len(selected) = IF call.limit > 0
                              THEN Min(call.limit, Cardinality(passed))
                              ELSE Cardinality(passed)
           /\ passed = {} => selected = <<>>

\* ======================================================================
\* scanner/pipeline/depth_check.py: run_depth_check, the loop of the depth
\* stage.
\*
\* `depth_check` is the frame of one call: its arguments, its locals and
\* `now`, the reading of time.monotonic().  A request or a sleep lets
\* time pass.  Of every symbol the frame keeps the counters of its
\* _DepthSymbolState; the snapshots themselves are modelled with the
\* criteria below.  A configuration `declares` the attributes the function
\* reads beyond those scanner/config.py gives its models
\* (sampling.depth.candidates_limit first, at line 225) or it does not.
\* ======================================================================

MaxDepthClock == 4

NoDeadline == -1

DepthStart == 1

DepthDeadlines == {NoDeadline, DepthStart - 1, DepthStart + 1}

DepthCandidateLists ==
    {c \in CandidateLists :
        /\ Len(c) <= 2
        /\ \A i \in 1..Len(c) : c[i].symbol \in {"AAA", "BBB"}}

DepthRunConfigs ==
    [ declares         : BOOLEAN,
      duration_s       : {0, 2},
      interval_s       : {0, 1},
      limit            : {0, 100},
      top_n_levels     : {0, 10},
      candidates_limit : {0, 1},
      max_rps          : {1, 2} ]

DepthOutcomes == {"snapshot", "empty_book", "invalid_book_levels",
                  "fatal", "transient"}

\* depth_check.py 51-64
_DepthSymbolState ==
    [ sample_count |-> 0, valid_samples |-> 0, empty_book_count |-> 0,
      invalid_book_count |-> 0, symbol_unavailable_count |-> 0 ]

\* depth_check.py 248-272
depth_target_ticks(cfg, symbols) ==
    LET naive_target_ticks == Max(1, Ceil(cfg.duration_s, cfg.interval_s))
    IN IF cfg.max_rps > 0 /\ Len(symbols) > 0
          /\ Len(symbols) > cfg.interval_s * cfg.max_rps
       THEN Max(1, (cfg.duration_s * cfg.max_rps) \div Len(symbols))
       ELSE naive_target_ticks

DepthRaised(f, error) == [f EXCEPT !.pc = "raised", !.error = error]

\* depth_check.py 183-283
CallRunDepthCheck(candidates, cfg, deadline_ts) ==
    /\ depth_check = NoDepthCheck
    /\ depth_check' =
         LET selection == _select_candidates(candidates, cfg.candidates_limit)
             symbols == selection.selected
             f == [ pc |-> "tick", candidates |-> candidates, cfg |-> cfg,
                    deadline_ts |-> deadline_ts, now |-> DepthStart,
                    error |-> None, symbols |-> <<>>, target_ticks |-> 0,
                    tick_idx |-> 0, position |-> 0,
                    tick_successful |-> FALSE,
                    ticks_success |-> 0, ticks_fail |-> 0,
                    depth_requests_total |-> 0, depth_fail_total |-> 0,
                    timed_out |-> FALSE,
                    symbol_states |-> [s \in {} |-> _DepthSymbolState] ]
         IN IF cfg.interval_s <= 0 \/ cfg.duration_s <= 0
               \/ cfg.limit <= 0 \/ cfg.limit > 5000
               \/ cfg.top_n_levels <= 0
            THEN DepthRaised(f, "ValueError")
            ELSE IF ~cfg.declares THEN DepthRaised(f, "AttributeError")
            ELSE IF selection.error # None THEN DepthRaised(f, selection.error)
            ELSE IF symbols = <<>> THEN DepthRaised(f, "ValueError")
            ELSE [f EXCEPT
                    !.symbols = symbols,
                    !.target_ticks = depth_target_ticks(cfg, symbols),
                    !.symbol_states =
                        [s \in Range(symbols) |-> _DepthSymbolState]]
    /\ UNCHANGED <<base_vars, sampling, call>>

DeadlinePassed(f) == f.deadline_ts # NoDeadline /\ f.now > f.deadline_ts

\* lines 284-298: the top of a tick
DepthTick ==
    /\ depth_check.pc = "tick"
    /\ depth_check.tick_idx < depth_check.target_ticks
    /\ depth_check' =
         IF DeadlinePassed(depth_check)
         THEN [depth_check EXCEPT !.timed_out = TRUE, !.pc = "results"]
         ELSE [depth_check EXCEPT !.tick_successful = FALSE,
                                  !.position = 1, !.pc = "symbol"]
    /\ UNCHANGED <<base_vars, sampling, call>>

\* lines 299-386: one symbol of the tick; the request answers with
\* `outcome` and takes `dt` of time (the backoff sleep included)
DepthRequest(outcome, dt) ==
    /\ depth_check.pc = "symbol"
    /\ depth_check.position <= Len(depth_check.symbols)
    /\ depth_check.now + dt <= MaxDepthClock
    /\ depth_check' =
         LET symbol == depth_check.symbols[depth_check.position]
         IN IF DeadlinePassed(depth_check)
            THEN [depth_check EXCEPT !.timed_out = TRUE, !.pc = "results"]
            ELSE [depth_check EXCEPT
                    !.depth_requests_total = @ + 1,
                    !.now = @ + dt,
                    !.position = @ + 1,
                    !.tick_successful = @ \/ outcome = "snapshot",
                    !.depth_fail_total =
                        @ + (IF outcome = "snapshot" THEN 0 ELSE 1),
                    !.symbol_states[symbol] =
                        CASE outcome = "snapshot" ->
                               [@ EXCEPT !.sample_count = @ + 1,
                                         !.valid_samples = @ + 1]
                          [] outcome = "empty_book" ->
                               [@ EXCEPT !.sample_count = @ + 1,
                                         !.empty_book_count = @ + 1]
                          [] outcome = "invalid_book_levels" ->
                               [@ EXCEPT !.sample_count = @ + 1,
                                         !.invalid_book_count = @ + 1]
                          [] outcome = "fatal" ->
                               [@ EXCEPT !.symbol_unavailable_count = @ + 1]
                          [] OTHER -> @]
    /\ UNCHANGED <<base_vars, sampling, call>>

\* lines 387-398: the end of a tick and the sleep to the next one
DepthTickEnd ==
    /\ depth_check.pc = "symbol"
    /\ depth_check.position > Len(depth_check.symbols)
    /\ depth_check' =
         [depth_check EXCEPT
            !.ticks_success = @ + (IF depth_check.tick_successful THEN 1 ELSE 0),
            !.ticks_fail = @ + (IF depth_check.tick_successful THEN 0 ELSE 1),
            !.tick_idx = @ + 1,
            !.now = Max(@, DepthStart
                           + (depth_check.tick_idx + 1)
                             * depth_check.cfg.interval_s),
            !.pc = "tick"]
    /\ UNCHANGED <<base_vars, sampling, call>>

\* lines 400-484: the loop is over.  symbols is not empty, and the first
\* DepthSymbolMetrics is built without its required field
\* band_ask_notional_median (models/depth.py 44-64): the constructor
\* raises TypeError, nothing is exported and no result is returned.
DepthResults ==
    /\ \/ depth_check.pc = "results"
       \/ /\ depth_check.pc = "tick"
          /\ depth_check.tick_idx >= depth_check.target_ticks
    /\ depth_check' = DepthRaised(depth_check, "TypeError")
    /\ UNCHANGED <<base_vars, sampling, call>>

InitDepth == PipelineIdle /\ AnalysisIdle

NextDepth ==
    \/ /\ depth_check = NoDepthCheck
       /\ \E candidates \in DepthCandidateLists, cfg \in DepthRunConfigs,
             deadline_ts \in DepthDeadlines :
               CallRunDepthCheck(candidates, cfg, deadline_ts)
    \/ DepthTick
    \/ \E outcome \in DepthOutcomes, dt \in {0, 1} : DepthRequest(outcome, dt)
    \/ DepthTickEnd
    \/ DepthResults

SpecDepth == InitDepth /\ [][NextDepth]_vars

\* ---- C27 ----
\* a call on a list of ScoreResult of which none passed spread
NonePassedSpread(candidates) ==
    /\ OnlyScoreResults(candidates)
    /\ PassedSpread(candidates) = {}

\* C27: when no candidate passed spread, run_depth_check makes no depth
\* request and does not raise: it returns normally, with no depth
\* metrics.
C27_NoCandidatesNoFailure ==
    (/\ depth_check.pc # "idle"
     /\ NonePassedSpread(depth_check.candidates)
     /\ depth_check.cfg.duration_s > 0 /\ depth_check.cfg.interval_s > 0
     /\ depth_check.cfg.limit > 0 /\ depth_check.cfg.top_n_levels > 0)
    => /\ depth_check.depth_requests_total = 0
       /\ depth_check.pc # "raised"

\* ======================================================================
\* scanner/pipeline/depth_check.py: _evaluate_depth_criteria and the
\* verdict the results loop of run_depth_check computes for one symbol
\* (lines 402-427).
\*
\* Notionals are whole units of the quote currency, NoNotional is None for
\* an optional notional or threshold.  An optional flag is "True",
\* "False" or "None".  uptime is the pair valid_samples, target_ticks.
\* ======================================================================

NoNotional == -1

Flag(b) == IF b THEN "True" ELSE "False"

\* what aggregate_depth_metrics returns for no snapshot
\* (depth_metrics.py 305-313)
NoAggregates ==
    [ best_bid_notional_median |-> NoNotional,
      best_ask_notional_median |-> NoNotional,
      topn_bid_notional_median |-> NoNotional,
      topn_ask_notional_median |-> NoNotional,
      band_10 |-> NoNotional,
      unwind_slippage_p90_bps |-> NoBps ]

\* what it returns for one snapshot or more: the medians are numbers, the
\* band of 10 bps is absent when band_bps does not list it, the slippage
\* is None when no snapshot could fill the stress order
SomeAggregates ==
    [ best_bid_notional_median : {50, 150},
      best_ask_notional_median : {50, 150},
      topn_bid_notional_median : {50, 150},
      topn_ask_notional_median : {50, 150},
      band_10 : {NoNotional, 50, 150},
      unwind_slippage_p90_bps : {NoBps, 20, 80} ]

\* the counters of a symbol after the loop: every request that was
\* answered counts as a sample, as a snapshot or as one of the two book
\* errors (depth_check.py 330-355)
SymbolStates ==
    {s \in [ sample_count : 0..4, valid_samples : {0, 1, 2},
             empty_book_count : {0, 1}, invalid_book_count : {0, 1},
             symbol_unavailable_count : {0, 1} ] :
        s.sample_count = s.valid_samples + s.empty_book_count
                           + s.invalid_book_count}

DepthThresholds ==
    [ declares                : BOOLEAN,
      best_level_min_notional : {100},
      unwind_slippage_max_bps : {50},
      enable_band_checks      : BOOLEAN,
      band_10bps_min_notional : {NoNotional, 100},
      enable_topN_checks      : BOOLEAN,
      topN_min_notional       : {NoNotional, 100} ]

\* depth_check.py 113-180
_evaluate_depth_criteria(aggregates, cfg) ==
    LET best_bid_median == aggregates.best_bid_notional_median
        best_ask_median == aggregates.best_ask_notional_median
        unwind_p90 == aggregates.unwind_slippage_p90_bps
        best_bid_pass == /\ best_bid_median # NoNotional
                         /\ best_bid_median >= cfg.best_level_min_notional
        best_ask_pass == /\ best_ask_median # NoNotional
                         /\ best_ask_median >= cfg.best_level_min_notional
        unwind_slippage_pass == /\ unwind_p90 # NoBps
                                /\ unwind_p90 <= cfg.unwind_slippage_max_bps
        band_checked == /\ cfg.enable_band_checks
                        /\ cfg.band_10bps_min_notional # NoNotional
        band_value == aggregates.band_10
        band_10bps_pass == /\ band_value # NoNotional
                           /\ band_value >= cfg.band_10bps_min_notional
        topn_checked == /\ cfg.enable_topN_checks
                        /\ cfg.topN_min_notional # NoNotional
        topn_bid == aggregates.topn_bid_notional_median
        topn_ask == aggregates.topn_ask_notional_median
        topn_pass == /\ topn_bid # NoNotional
                     /\ topn_ask # NoNotional
                     /\ Min(topn_bid, topn_ask) >= cfg.topN_min_notional
    IN [ best_bid_notional_pass |-> best_bid_pass,
         best_ask_notional_pass |-> best_ask_pass,
         unwind_slippage_pass |-> unwind_slippage_pass,
         band_10bps_notional_pass |->
             IF band_checked THEN Flag(band_10bps_pass) ELSE "None",
         topn_notional_pass |->
             IF topn_checked THEN Flag(topn_pass) ELSE "None",
         fail_reasons |->
             (IF best_bid_median = NoNotional
              THEN <<"missing_best_bid_notional">>
              ELSE Reason(~best_bid_pass, "best_bid_notional_low"))
             \o (IF best_ask_median = NoNotional
                 THEN <<"missing_best_ask_notional">>
                 ELSE Reason(~best_ask_pass, "best_ask_notional_low"))
             \o (IF unwind_p90 = NoBps
                 THEN <<"missing_unwind_slippage">>
                 ELSE Reason(~unwind_slippage_pass, "unwind_slippage_high"))
             \o (IF ~band_checked THEN <<>>
                 ELSE IF band_value = NoNotional
                 THEN <<"missing_band_10bps_notional">>
                 ELSE Reason(~band_10bps_pass, "band_10bps_notional_low"))
             \o (IF ~topn_checked THEN <<>>
                 ELSE IF topn_bid = NoNotional \/ topn_ask = NoNotional
                 THEN <<"missing_topn_notional">>
                 ELSE Reason(~topn_pass, "topn_notional_low")) ]

\* depth_check.py 406-414
counter_reasons(symbol_state) ==
    Reason(symbol_state.empty_book_count # 0, "empty_book")
    \o Reason(symbol_state.invalid_book_count # 0, "invalid_book_levels")
    \o Reason(symbol_state.symbol_unavailable_count # 0, "symbol_unavailable")
    \o Reason(symbol_state.valid_samples = 0, "no_valid_samples")

\* depth_check.py 402-427: what the results loop computes for one symbol.
\* DepthConfig and DepthThresholdsConfig of scanner/config.py do not
\* declare enable_band_checks and the names read after it, so line 150
\* raises AttributeError for them.
symbol_verdict(symbol_state, aggregates, cfg, ticks) ==
    IF ~cfg.declares THEN [error |-> "AttributeError"]
    ELSE LET criteria == _evaluate_depth_criteria(aggregates, cfg)
             reasons == counter_reasons(symbol_state) \o criteria.fail_reasons
         IN [ error |-> None,
              uptime |-> <<symbol_state.valid_samples, ticks>>,
              criteria |-> criteria,
              fail_reasons |-> reasons,
              pass_depth |-> Len(reasons) = 0 ]

CallSymbolVerdict(symbol_state, aggregates, cfg, ticks) ==
    /\ call = NoCall
    /\ call' = [ fn |-> "symbol_verdict", symbol_state |-> symbol_state,
                 aggregates |-> aggregates, cfg |-> cfg, ticks |-> ticks,
                 result |-> symbol_verdict(symbol_state, aggregates, cfg, ticks) ]
    /\ UNCHANGED <<base_vars, sampling, depth_check>>

InitCriteria == PipelineIdle /\ AnalysisIdle

NextCriteria ==
    /\ call = NoCall
    /\ \E symbol_state \in SymbolStates, cfg \in DepthThresholds, ticks \in {2, 4} :
       \E aggregates \in IF symbol_state.valid_samples = 0 THEN {NoAggregates}
                         ELSE SomeAggregates :
          CallSymbolVerdict(symbol_state, aggregates, cfg, ticks)

SpecCriteria == InitCriteria /\ [][NextCriteria]_vars

\* ---- C28 ----
Judged == call.fn = "symbol_verdict" /\ call.result.error = None

\* all enabled criteria hold: the three required flags are true and no
\* optional flag is false
AllCriteriaHold(criteria) ==
    /\ criteria.best_bid_notional_pass
    /\ criteria.best_ask_notional_pass
    /\ criteria.unwind_slippage_pass
    /\ criteria.band_10bps_notional_pass # "False"
    /\ criteria.topn_notional_pass # "False"

Listed(reasons, codes) == \E i \in 1..Len(reasons) : reasons[i] \in codes

\* each flag is false exactly when one of its codes is in fail_reasons
FlagsMatchReasons(criteria, reasons) ==
    /\ ~criteria.best_bid_notional_pass <=>
         Listed(reasons, {"best_bid_notional_low", "missing_best_bid_notional"})
    /\ ~criteria.best_ask_notional_pass <=>
         Listed(reasons, {"best_ask_notional_low", "missing_best_ask_notional"})
    /\ ~criteria.unwind_slippage_pass <=>
         Listed(reasons, {"unwind_slippage_high", "missing_unwind_slippage"})
    /\ criteria.band_10bps_notional_pass = "False" <=>
         Listed(reasons, {"band_10bps_notional_low",
                          "missing_band_10bps_notional"})
    /\ criteria.topn_notional_pass = "False" <=>
         Listed(reasons, {"topn_notional_low", "missing_topn_notional"})

NoDepthResult == [present |-> FALSE, pass_depth |-> FALSE]

DepthResults_ == {NoDepthResult} \cup [present : {TRUE}, pass_depth : BOOLEAN]

SummaryResults ==
    [ symbol : {"AAA"}, pass_spread : BOOLEAN,
      edge_mm_bps : {NoBps, 1, 5}, score : {1, 2} ]

EdgeMinimums == {0, 3}

\* str(value) of a bool, as csv.DictWriter writes it
BoolText(b) == IF b THEN "True" ELSE "False"

\* report_md.py 80-85, on the text of a cell
_parse_bool(value) == value \in {"true", "True", "TRUE", "1", "yes", "Yes", "YES"}

\* depth_export.py 174-199: the cells of the row that carry the verdicts
enriched_row(result, depth, edge_min_bps) ==
    LET row_pass_depth == IF depth.present THEN depth.pass_depth ELSE FALSE
        pass_total == /\ result.pass_spread
                      /\ row_pass_depth
                      /\ result.edge_mm_bps # NoBps
                      /\ result.edge_mm_bps >= edge_min_bps
    IN [ symbol |-> result.symbol,
         pass_spread |-> BoolText(result.pass_spread),
         pass_depth |-> BoolText(row_pass_depth),
         pass_total |-> BoolText(pass_total),
         depth_fail_reasons |-> IF depth.present THEN "" ELSE "no_depth_data" ]

\* depth_export.py 132-215
ExportSummaryEnriched(result, depth, edge_min_bps) ==
    /\ call = NoCall
    /\ call' = [ fn |-> "export_summary_enriched", summary |-> result,
                 depth |-> depth, edge_min_bps |-> edge_min_bps,
                 row |-> enriched_row(result, depth, edge_min_bps) ]
    /\ UNCHANGED <<base_vars, sampling, depth_check>>

\* report_md.py 143-158
_read_summary_enriched(row) ==
    [ symbol |-> row.symbol,
      pass_spread |-> _parse_bool(row.pass_spread),
      pass_depth |-> IF row.pass_depth = "" THEN "None"
                     ELSE BoolText(_parse_bool(row.pass_depth)),
      pass_total |-> _parse_bool(row.pass_total) ]

\* report_md.py 195-262: the header of the report reads
\* cfg.sampling.depth.candidates_limit and the spread minimums, which an
\* AppConfig of scanner/config.py does not declare
ReportRaises(declares) == ~declares

\* report_md.py 367-388: summary_enriched.csv exists
ReportFromEnriched(declares) ==
    /\ call.fn = "export_summary_enriched"
    /\ call' =
         IF ReportRaises(declares)
         THEN [ fn |-> "_render_report", error |-> "AttributeError" ]
         ELSE LET enriched == _read_summary_enriched(call.row)
              IN [ fn |-> "_render_report", error |-> None,
                   summary |-> call.summary, depth |-> call.depth,
                   edge_min_bps |-> call.edge_min_bps,
                   from_enriched |-> TRUE,
                   candidate |->
                     [ symbol |-> enriched.symbol,
                       pass_spread |-> enriched.pass_spread,
                       pass_depth |-> enriched.pass_depth,
                       pass_total |-> enriched.pass_total,
                       edge_mm_bps |-> call.summary.edge_mm_bps ] ]
    /\ UNCHANGED <<base_vars, sampling, depth_check>>

\* report_md.py 389-405: no summary_enriched.csv; `edge_mm_bps or 0`
ReportFromSummary(summary, edge_min_bps, declares) ==
    /\ call = NoCall
    /\ call' =
         IF ReportRaises(declares)
         THEN [ fn |-> "_render_report", error |-> "AttributeError" ]
         ELSE [ fn |-> "_render_report", error |-> None,
                summary |-> summary, depth |-> NoDepthResult,
                edge_min_bps |-> edge_min_bps,
                from_enriched |-> FALSE,
                candidate |->
                  [ symbol |-> summary.symbol,
                    pass_spread |-> summary.pass_spread,
                    pass_depth |-> "None",
                    pass_total |->
                        /\ summary.pass_spread
                        /\ (IF summary.edge_mm_bps \in {NoBps, 0} THEN 0
                            ELSE summary.edge_mm_bps) >= edge_min_bps,
                    edge_mm_bps |-> summary.edge_mm_bps ] ]
    /\ UNCHANGED <<base_vars, sampling, depth_check>>

InitTotal == PipelineIdle /\ AnalysisIdle

NextTotal ==
    \/ \E result \in SummaryResults, depth \in DepthResults_,
          edge_min_bps \in EdgeMinimums :
            ExportSummaryEnriched(result, depth, edge_min_bps)
    \/ \E declares \in BOOLEAN : ReportFromEnriched(declares)
    \/ \E summary \in SummaryResults, edge_min_bps \in EdgeMinimums,
          declares \in BOOLEAN :
            ReportFromSummary(summary, edge_min_bps, declares)

SpecTotal == InitTotal /\ [][NextTotal]_vars

\* ---- C29 ----
\* what pass_total = true promises of a symbol
TotalJustified(summary, depth, edge_min_bps) ==
    /\ summary.pass_spread
    /\ depth.present
    /\ depth.pass_depth
    /\ summary.edge_mm_bps # NoBps
    /\ summary.edge_mm_bps >= edge_min_bps

MaxLevels == 3

BidPrices == {98, 99, 100}

BidQuantities == {1, 2}

\* bid levels of a book, best price first
BidBooks ==
    UNION {{b \in [1..n -> [price : BidPrices, qty : BidQuantities]] :
              \A i \in 1..(n - 1) : b[i].price > b[i + 1].price}
           : n \in 0..MaxLevels}

StressNotionals == {0, 50, 100, 199, 200, 250, 300, 600}

DoubleMids == {0, 201, 203}

RECURSIVE GCD(_, _)
GCD(a, b) == IF b = 0 THEN a ELSE GCD(b, a % b)

\* the number num / den (den > 0) in lowest terms
Fraction(num, den) ==
    LET g == GCD(IF num < 0 THEN -num ELSE num, den)
    IN <<num \div g, den \div g>>

NothingFilled ==
    [ total_quote |-> 0, base_num |-> 0, base_den |-> 1, remaining |-> 0,
      done |-> FALSE ]

\* the loop body without line 266: the remaining notional is never
\* reduced by a level that was filled whole
fill_level_keeps_remaining(acc, level) ==
    LET level_notional == level.price * level.qty
    IN IF acc.done THEN acc
       ELSE IF level_notional >= acc.remaining
       THEN [acc EXCEPT
               !.total_quote = @ + acc.remaining,
               !.base_num = @ * level.price + acc.remaining * acc.base_den,
               !.base_den = @ * level.price,
               !.remaining = 0,
               !.done = TRUE]
       ELSE [acc EXCEPT
               !.total_quote = @ + level_notional,
               !.base_num = @ + level.qty * acc.base_den]

\* depth_metrics.py 253-266: one pass of the loop; `done` is the break
fill_level(acc, level) ==
    LET level_notional == level.price * level.qty
    IN IF acc.done THEN acc
       ELSE IF level_notional >= acc.remaining
       THEN [acc EXCEPT
               !.total_quote = @ + acc.remaining,
               !.base_num = @ * level.price + acc.remaining * acc.base_den,
               !.base_den = @ * level.price,
               !.remaining = 0,
               !.done = TRUE]
       ELSE [acc EXCEPT
               !.total_quote = @ + level_notional,
               !.base_num = @ + level.qty * acc.base_den,
               !.remaining = @ - level_notional]

RECURSIVE walk_bids(_, _)
walk_bids(bids, acc) ==
    IF bids = <<>> THEN acc
    ELSE walk_bids(Tail(bids), fill_level(acc, Head(bids)))

\* depth_metrics.py 209-273
compute_unwind_slippage_bps(bids, mid2, stress_notional) ==
    IF mid2 <= 0 \/ stress_notional <= 0
    THEN [error |-> "ValueError"]
    ELSE LET end == walk_bids(bids, [NothingFilled EXCEPT
                                       !.remaining = stress_notional])
         IN IF end.remaining > 0 \/ end.base_num <= 0
            THEN [ error |-> None, none |-> TRUE,
                   total_quote |-> end.total_quote,
                   base_num |-> end.base_num, base_den |-> end.base_den,
                   slippage |-> <<0, 1>> ]
            ELSE \* avg_price = total_quote * base_den / base_num, and
                 \* (mid - avg_price) / mid * 10_000 with mid = mid2 / 2
                 [ error |-> None, none |-> FALSE,
                   total_quote |-> end.total_quote,
                   base_num |-> end.base_num, base_den |-> end.base_den,
                   slippage |->
                       Fraction((mid2 * end.base_num
                                   - 2 * end.total_quote * end.base_den) * 10000,
                                mid2 * end.base_num) ]

CallComputeUnwindSlippage(bids, mid2, stress_notional) ==
    /\ call = NoCall
    /\ call' = [ fn |-> "compute_unwind_slippage_bps", bids |-> bids,
                 mid2 |-> mid2, stress_notional |-> stress_notional,
                 result |-> compute_unwind_slippage_bps(bids, mid2,
                                                        stress_notional) ]
    /\ UNCHANGED <<base_vars, sampling, depth_check>>

InitUnwind == PipelineIdle /\ AnalysisIdle

NextUnwind ==
    /\ call = NoCall
    /\ \E bids \in BidBooks, mid2 \in DoubleMids,
          stress_notional \in StressNotionals :
            CallComputeUnwindSlippage(bids, mid2, stress_notional)

SpecUnwind == InitUnwind /\ [][NextUnwind]_vars

\* ---- C30 ----
RECURSIVE NotionalThrough(_, _)
NotionalThrough(bids, k) ==
    IF k = 0 THEN 0
    ELSE bids[k].price * bids[k].qty + NotionalThrough(bids, k - 1)

RECURSIVE QuantityThrough(_, _)
QuantityThrough(bids, k) ==
    IF k = 0 THEN 0 ELSE bids[k].qty + QuantityThrough(bids, k - 1)

\* the level at which an order of `stress` is completed
LastLevel(bids, stress) ==
    CHOOSE k \in 1..Len(bids) :
        /\ NotionalThrough(bids, k) >= stress
        /\ NotionalThrough(bids, k - 1) < stress

Unwound == /\ call.fn = "compute_unwind_slippage_bps"
           /\ call.result.error = None

\* C30: a call that returns gives None exactly when the notional of all
\* bid levels is below stress_notional; otherwise the levels before the
\* completing one are sold whole and the completing one in part, the
\* quote amount filled is stress_notional, and the value returned is
\* (mid - VWAP) / mid * 10000 with VWAP = quote filled / base sold.
C30_UnwindSlippage ==
    Unwound =>
        LET bids == call.bids
            stress == call.stress_notional
            r == call.result
        IN /\ r.none <=> NotionalThrough(bids, Len(bids)) < stress
           /\ ~r.none =>
                LET k == LastLevel(bids, stress)
                    \* base sold = whole levels + rest / price of level k
                    rest == stress - NotionalThrough(bids, k - 1)
                    sold_num == QuantityThrough(bids, k - 1) * bids[k].price
                                  + rest
                    sold_den == bids[k].price
                IN /\ r.total_quote = stress
                   /\ r.base_num * sold_den = sold_num * r.base_den
                   \* (mid - stress / sold) / mid * 10000 with mid = mid2 / 2
                   /\ r.slippage
                        = Fraction((call.mid2 * sold_num
                                      - 2 * stress * sold_den) * 10000,
                                   call.mid2 * sold_num)

\* a call that sold one level whole and the next in part
C30_Witness ==
    /\ Unwound
    /\ ~call.result.none
    /\ Len(call.bids) >= 2
    /\ LastLevel(call.bids, call.stress_notional) = 2
    /\ NotionalThrough(call.bids, 2) > call.stress_notional

----------------------------------------------------------------------------
(* Recorded errors of finished stages *)

\* C36: whenever a stage is recorded as success or skipped its recorded
\* error is null, and a skipped stage has started_at = null, also when an
\* earlier invocation recorded the stage as failed or timeout.
C36_FinishedStagesHaveNoError ==
    \A s \in Stages :
        /\ state[s].status \in {"success", "skipped"} => state[s].error = "null"
        /\ state[s].status = "skipped" => state[s].started_at = "null"

----------------------------------------------------------------------------
(* Resume after an interruption *)

----------------------------------------------------------------------------
(* Pipeline counters of metrics.json *)

\* the plan entries of the invocation recorded with one of the statuses
Recorded(statuses) ==
    Cardinality({i \in 1..Len(processed) : processed[i].status \in statuses})

\* C38: during one invocation the pipeline counters of metrics.json agree
\* with the stage statuses: every stage recorded skipped, success (or
\* timeout) or failed has added one to the counter of its status, so
\* pipeline_stage_failed_total counts the stages recorded failed, whatever
\* the cause of the failure.
C38_CountersAgreeWithStatuses ==
    metrics_json.file = "whole" =>
        /\ metrics_json.pipeline_stage_skipped_total = Recorded({"skipped"})
        /\ metrics_json.pipeline_stage_success_total = Recorded({"success", "timeout"})
        /\ metrics_json.pipeline_stage_failed_total = Recorded({"failed"})

----------------------------------------------------------------------------
(* Run health *)

\* the counters of a metrics.json payload, as the client keeps them
RecordedCounters(payload) ==
    [s429 |-> payload.http_429_total, s403 |-> payload.http_403_total,
     s5xx |-> payload.http_5xx_total]

\* the health the claim derives from the counters m and the degraded flag
HealthOf(m, flag) ==
    IF m.s5xx > 0 THEN "api_unstable"
    ELSE IF m.s429 > 0 \/ m.s403 > 0 \/ flag > 0 THEN "degraded"
    ELSE "ok"

----------------------------------------------------------------------------
(* scanner/mexc/ratelimit.py: termination of TokenBucket.acquire *)

\* the caller followed to the end of its calls; the other callers stay out
LoneCaller == CHOOSE t \in Callers : \A u \in Callers : t <= u

\* a time one tick nearer to the origin of the clock
Earlier(x) == IF x > 0 THEN x - 1 ELSE 0

\* time.monotonic() advances by one tick, for ever.  Beyond MaxClock the
\* origin of the clock moves along, which keeps every difference the code
\* computes: an _updated_at that would fall before the origin is a second
\* or more in the past, and the refill of ratelimit.py 23 then fills the
\* bucket whatever the difference is.
TimePassesLive ==
    /\ _lock = Unlocked
    /\ IF clock < MaxClock
       THEN /\ clock' = clock + 1
            /\ UNCHANGED <<_updated_at, wake_at>>
       ELSE /\ clock' = clock
            /\ _updated_at' = Earlier(_updated_at)
            /\ wake_at' = [t \in Callers |-> Earlier(wake_at[t])]
    /\ UNCHANGED <<_rate, _capacity, _tokens, _lock, at,
                   window_start, returned_in_window, granted>>
    /\ UNCHANGED <<pipeline_vars, cli_vars, request_vars, analysis_vars>>

\* ratelimit.py 27-28: caller t takes one token, leaves the lock and returns
TakeLive(t) ==
    /\ at[t] = "take"
    /\ _tokens' = _tokens - UnitsPerToken
    /\ _lock' = Unlocked
    /\ at' = [at EXCEPT ![t] = "out"]
    /\ UNCHANGED <<_rate, _capacity, _updated_at, clock, wake_at,
                   window_start, returned_in_window, granted>>
    /\ UNCHANGED <<pipeline_vars, cli_vars, request_vars, analysis_vars>>

\* one thread calls acquire() again and again on a new bucket
NextBucketLive ==
    \/ TimePassesLive
    \/ CallAcquire(LoneCaller)
    \/ Lock(LoneCaller)
    \/ Refill(LoneCaller)
    \/ Check(LoneCaller)
    \/ TakeLive(LoneCaller)
    \/ Wake(LoneCaller)

\* time advances, every sleep ends, and the thread is scheduled
SpecBucketLive ==
    /\ InitBucket
    /\ [][NextBucketLive]_vars
    /\ WF_vars(TimePassesLive)
    /\ WF_vars(Lock(LoneCaller))
    /\ WF_vars(Refill(LoneCaller))
    /\ WF_vars(Check(LoneCaller))
    /\ WF_vars(TakeLive(LoneCaller))
    /\ WF_vars(Wake(LoneCaller))

\* C39: for a bucket of any positive rate and default capacity, rates below
\* one request per second included, every call of acquire() eventually
\* returns, provided time advances and each sleep ends.
C39_AcquireReturns ==
    at[LoneCaller] = "top" ~> at[LoneCaller] = "out"

----------------------------------------------------------------------------
(* Order of the spread percentiles *)

\* compute_spread_stats applied to every list of up to MaxSamples quotes
NextStats ==
    /\ call = NoCall
    /\ \E samples \in SampleLists : CallComputeSpreadStats(samples)

SpecStats == InitSpread /\ [][NextStats]_vars

\* compute_spread_stats has returned statistics with defined percentiles
HasPercentiles ==
    /\ call # NoCall
    /\ call.fn = "compute_spread_stats"
    /\ call.result.error = None
    /\ call.result.valid_samples > 0

\* v lies at position num / den * (n - 1) of the sorted values, on the
\* straight line between the two values around that position
Interpolates(v, values, num, den) ==
    LET n == Len(values)
        k == (num * (n - 1)) \div den
        r == (num * (n - 1)) % den
    IN IF n = 1 \/ r = 0 THEN v = values[k + 1]
       ELSE /\ den * (v - values[k + 1]) = r * (values[k + 2] - values[k + 1])
            /\ values[k + 1] <= v
            /\ v <= values[k + 2]

\* the values are in ascending order and are the spreads of the valid
\* samples
SortedValidSpreads(values, samples) ==
    /\ \A i \in 1..(Len(values) - 1) : values[i] <= values[i + 1]
    /\ Len(values) = Cardinality({i \in 1..Len(samples) :
                                    samples[i].quote[1] + samples[i].quote[2] > 0})

\* C35: for every non-empty list of samples with a valid one, the
\* statistics satisfy p10 <= p25 <= median <= p90, each value is the
\* linear-interpolation percentile of the sorted valid spreads at position
\* q * (n - 1), and the median is the percentile at q = 0.5.
C35_PercentilesOrdered ==
    HasPercentiles =>
        LET st == call.result
            values == st.spreads_sorted
        IN /\ SortedValidSpreads(values, call.samples)
           /\ st.spread_p10_bps <= st.spread_p25_bps
           /\ st.spread_p25_bps <= st.spread_median_bps
           /\ st.spread_median_bps <= st.spread_p90_bps
           /\ Interpolates(st.spread_p10_bps, values, 10, 100)
           /\ Interpolates(st.spread_p25_bps, values, 25, 100)
           /\ Interpolates(st.spread_median_bps, values, 50, 100)
           /\ Interpolates(st.spread_p90_bps, values, 90, 100)

\* four valid samples with four different spreads: every percentile falls
\* between two values and the four statistics differ
C35_Witness ==
    /\ HasPercentiles
    /\ call.result.valid_samples = 4
    /\ call.result.spread_p10_bps < call.result.spread_p25_bps
    /\ call.result.spread_p25_bps < call.result.spread_median_bps
    /\ call.result.spread_median_bps < call.result.spread_p90_bps
    /\ call.result.spread_p10_bps > call.result.spreads_sorted[1]
    /\ call.result.spread_p90_bps < call.result.spreads_sorted[4]

----------------------------------------------------------------------------
(* The 24h statistics of a symbol: pipeline/ticker_24h.py *)

\* A field of a row of the payload is JSON null (NoFloat, Python's None), a
\* text float() rejects (Unparsable) or a number.  The prices of the book
\* rows are chosen so that a mid price is a whole number.
TickerSymbol == "AAA"

QuoteVolumeFields == {NoFloat, Unparsable, 50, 500}

VolumeFields == {NoFloat, Unparsable, 100}

CountFields == {NoFloat, Unparsable, 1, 100}

TickerRows ==
    [ symbol : {TickerSymbol}, quoteVolume : QuoteVolumeFields,
      volume : VolumeFields, count : CountFields ]

BookRows ==
    [ symbol : {TickerSymbol}, bidPrice : {NoFloat, Unparsable, 0, 2},
      askPrice : {NoFloat, 4} ]

\* payloads of at most one row
TickerPayloads == {<<>>} \cup {<<row>> : row \in TickerRows}

BookPayloads == {<<>>} \cup {<<row>> : row \in BookRows}

\* ticker_24h.py 35-44: (value, ok)
_parse_float_ok(value) ==
    IF value = NoFloat THEN [value |-> NoFloat, ok |-> TRUE]
    ELSE IF value = Unparsable THEN [value |-> NoFloat, ok |-> FALSE]
    ELSE [value |-> value, ok |-> TRUE]

\* ticker_24h.py 47-56: the counts of the payloads are whole numbers, which
\* int(float(value)) leaves as they are
_parse_int_ok(value) ==
    IF value = NoFloat THEN [value |-> NoFloat, ok |-> TRUE]
    ELSE IF value = Unparsable THEN [value |-> NoFloat, ok |-> FALSE]
    ELSE [value |-> value, ok |-> TRUE]

\* ticker_24h.py 59-71
_mid_price(entry) ==
    LET bid == _parse_float_ok(entry.bidPrice)
        ask == _parse_float_ok(entry.askPrice)
    IN IF ~(bid.ok /\ ask.ok) THEN NoFloat
       ELSE IF bid.value = NoFloat \/ ask.value = NoFloat THEN NoFloat
       ELSE IF bid.value <= 0 \/ ask.value <= 0 THEN NoFloat
       ELSE IF (bid.value + ask.value) \div 2 <= 0 THEN NoFloat
       ELSE (bid.value + ask.value) \div 2

\* ticker_24h.py 98-111: one row of the payload, parsed
_ParsedTickerRow(entry, require_trade_count) ==
    LET quote  == _parse_float_ok(entry.quoteVolume)
        volume == _parse_float_ok(entry.volume)
        count  == _parse_int_ok(entry.count)
    IN [ quote_volume_raw |-> quote.value,
         volume_raw |-> volume.value,
         trade_count |-> IF count.ok THEN count.value ELSE NoFloat,
         parse_error |-> \/ ~quote.ok
                         \/ ~volume.ok
                         \/ require_trade_count /\ ~count.ok ]

\* the last row of a payload that names the symbol, 0 when none does: a
\* later row replaces an earlier one in ticker_map and in mid_map
LastRowOf(payload, symbol) ==
    LET rows == {i \in 1..Len(payload) : payload[i].symbol = symbol}
    IN IF rows = {} THEN 0
       ELSE CHOOSE i \in rows : \A j \in rows : j <= i

\* ticker_24h.py 113-122: mid_map.get(symbol); a row without a valid mid
\* price leaves the entry of an earlier row in place
mid_map_get(book_payload, symbol) ==
    LET rows == {i \in 1..Len(book_payload) :
                   /\ book_payload[i].symbol = symbol
                   /\ _mid_price(book_payload[i]) # NoFloat}
    IN IF rows = {} THEN NoFloat
       ELSE _mid_price(book_payload[CHOOSE i \in rows : \A j \in rows : j <= i])

\* ticker_24h.py 138-220: the statistics of one symbol
Ticker24hStats(ticker_payload, book_payload, symbol, use_quote_volume_estimate, require_trade_count) ==
    LET at_row == LastRowOf(ticker_payload, symbol)
        mid_price == mid_map_get(book_payload, symbol)
    IN IF at_row = 0
       THEN [ symbol |-> symbol, quote_volume_raw |-> NoFloat,
              volume_raw |-> NoFloat, mid_price |-> mid_price,
              quote_volume_est |-> NoFloat, quote_volume_effective |-> NoFloat,
              trade_count |-> NoFloat, missing_24h_stats |-> TRUE,
              missing_24h_reason |-> "no_row", used_estimate |-> FALSE ]
       ELSE
       LET row == _ParsedTickerRow(ticker_payload[at_row], require_trade_count)
       IN IF row.parse_error
          THEN [ symbol |-> symbol, quote_volume_raw |-> row.quote_volume_raw,
                 volume_raw |-> row.volume_raw, mid_price |-> mid_price,
                 quote_volume_est |-> NoFloat,
                 quote_volume_effective |-> NoFloat,
                 trade_count |-> row.trade_count, missing_24h_stats |-> TRUE,
                 missing_24h_reason |-> "parse_error", used_estimate |-> FALSE ]
          ELSE
          LET used_estimate ==
                  /\ row.quote_volume_raw = NoFloat
                  /\ use_quote_volume_estimate
                  /\ row.volume_raw # NoFloat
                  /\ mid_price # NoFloat
              quote_volume_est ==
                  IF used_estimate THEN row.volume_raw * mid_price ELSE NoFloat
              quote_volume_effective ==
                  IF used_estimate THEN quote_volume_est
                  ELSE row.quote_volume_raw
              volume_reason ==
                  IF row.quote_volume_raw = NoFloat /\ row.volume_raw = NoFloat
                  THEN "no_any_fields"
                  ELSE IF /\ row.quote_volume_raw = NoFloat
                          /\ quote_volume_effective = NoFloat
                  THEN "no_volume_and_no_mid"
                  ELSE None
              count_missing == require_trade_count /\ row.trade_count = NoFloat
          IN [ symbol |-> symbol, quote_volume_raw |-> row.quote_volume_raw,
               volume_raw |-> row.volume_raw, mid_price |-> mid_price,
               quote_volume_est |-> quote_volume_est,
               quote_volume_effective |-> quote_volume_effective,
               trade_count |-> row.trade_count,
               missing_24h_stats |-> volume_reason # None \/ count_missing,
               missing_24h_reason |->
                   IF volume_reason # None THEN volume_reason
                   ELSE IF count_missing THEN "missing_trade_count"
                   ELSE None,
               used_estimate |-> used_estimate ]

\* ticker_24h.py 74-234: the dictionary returned for the symbols asked for
build_ticker24h_stats(ticker_payload, book_payload, symbols, use_quote_volume_estimate, require_trade_count) ==
    [symbol \in Range(symbols) |->
        Ticker24hStats(ticker_payload, book_payload, symbol,
                       use_quote_volume_estimate, require_trade_count)]

CallBuildTicker24hStats(ticker_payload, book_payload, symbols, use_quote_volume_estimate, require_trade_count) ==
    /\ sampling = NotSampling
    /\ call = NoCall
    /\ call' = [ fn |-> "build_ticker24h_stats",
                 ticker_payload |-> ticker_payload,
                 book_payload |-> book_payload,
                 symbols |-> symbols,
                 use_quote_volume_estimate |-> use_quote_volume_estimate,
                 require_trade_count |-> require_trade_count,
                 result |-> build_ticker24h_stats(
                                ticker_payload, book_payload, symbols,
                                use_quote_volume_estimate, require_trade_count) ]
    /\ UNCHANGED <<base_vars, sampling, depth_check>>

InitTicker == PipelineIdle /\ AnalysisIdle

NextTicker ==
    /\ call = NoCall
    /\ \E ticker_payload \in TickerPayloads, book_payload \in BookPayloads,
          use_quote_volume_estimate \in BOOLEAN, require_trade_count \in BOOLEAN :
            CallBuildTicker24hStats(ticker_payload, book_payload, <<TickerSymbol>>,
                                    use_quote_volume_estimate, require_trade_count)

SpecTicker == InitTicker /\ [][NextTicker]_vars

\* build_ticker24h_stats has returned the statistics of the symbol
TickerReturned ==
    /\ call # NoCall
    /\ call.fn = "build_ticker24h_stats"

\* the payload has a row for the symbol and every field of it parses
RowParses ==
    /\ call.ticker_payload # <<>>
    /\ call.ticker_payload[1].quoteVolume # Unparsable
    /\ call.ticker_payload[1].volume # Unparsable
    /\ call.require_trade_count => call.ticker_payload[1].count # Unparsable

\* C32: missing_24h_stats is true only for a symbol without a row in the
\* payload or with a row that has a parse error; a row that parses has
\* missing_24h_stats false, null volumes and a quote volume that cannot be
\* estimated included.
C32_MissingOnlyWithoutRowOrOnParseError ==
    TickerReturned =>
        (call.result[TickerSymbol].missing_24h_stats <=> ~RowParses)

----------------------------------------------------------------------------
(* The universe of symbols: pipeline/universe.py *)

UniverseSymbols == {"AAA", "BBB"}

\* client.get_default_symbols(): a list, possibly with a repeated symbol
DefaultSymbolLists ==
    {<<>>, <<"AAA">>, <<"BBB">>, <<"AAA", "BBB">>, <<"BBB", "AAA">>,
     <<"AAA", "AAA">>}

\* the entries exchangeInfo can hold for a symbol; None is a null status
ExchangeEntries(symbol) ==
    { [symbol |-> symbol, quoteAsset |-> "BTC", status |-> "1"],
      [symbol |-> symbol, quoteAsset |-> "USDT", status |-> None],
      [symbol |-> symbol, quoteAsset |-> "USDT", status |-> "2"],
      [symbol |-> symbol, quoteAsset |-> "USDT", status |-> "1"] }

\* the rows ticker/24hr can hold for a symbol: a parse error, null volumes,
\* a null quote volume beside a volume, a low volume, few trades, a null
\* count, and a row above both thresholds
UniverseTickerRows(symbol) ==
    { [symbol |-> symbol, quoteVolume |-> Unparsable, volume |-> NoFloat, count |-> 100],
      [symbol |-> symbol, quoteVolume |-> NoFloat, volume |-> NoFloat, count |-> 100],
      [symbol |-> symbol, quoteVolume |-> NoFloat, volume |-> 100, count |-> 100],
      [symbol |-> symbol, quoteVolume |-> 50, volume |-> NoFloat, count |-> 100],
      [symbol |-> symbol, quoteVolume |-> 500, volume |-> NoFloat, count |-> 1],
      [symbol |-> symbol, quoteVolume |-> 500, volume |-> NoFloat, count |-> NoFloat],
      [symbol |-> symbol, quoteVolume |-> 500, volume |-> NoFloat, count |-> 100] }

\* the payloads with at most one row per symbol, out of the given rows
PayloadsOf(rows(_)) ==
    {<<>>}
    \cup {<<r>> : r \in rows("AAA") \cup rows("BBB")}
    \cup {<<r, q>> : r \in rows("AAA"), q \in rows("BBB")}

ExchangePayloads == PayloadsOf(ExchangeEntries)

UniverseTickerPayloads == PayloadsOf(UniverseTickerRows)

UniverseBookPayloads ==
    { <<>>,
      << [symbol |-> "AAA", bidPrice |-> 2, askPrice |-> 4],
         [symbol |-> "BBB", bidPrice |-> 2, askPrice |-> 4] >> }

\* config.py 40-50; a pattern of blacklist_regex stands as the set of the
\* symbols it matches
UniverseConfigs ==
    [ quote_asset : {"USDT"},
      allowed_exchange_status : {{"1"}},
      min_quote_volume_24h : {100},
      min_trades_24h : {10},
      use_quote_volume_estimate : BOOLEAN,
      require_trade_count : BOOLEAN,
      blacklist_regex : {<<>>, <<{"BBB"}>>},
      whitelist : {{}, {"AAA"}} ]

\* universe.py 85, narrowed to the default list
candidates_default_only(default_set, exchange_keys) ==
    SelectSeq(CandidateSymbols, LAMBDA symbol : symbol \in default_set)

\* universe.py 85: sorted(default_set | set(exchange_map.keys()))
candidates(default_set, exchange_keys) ==
    SelectSeq(CandidateSymbols,
              LAMBDA symbol : symbol \in default_set \cup exchange_keys)

\* universe.py 91-131: the reason the first loop rejects the symbol for,
\* "tradable" when it does not
first_pass_reason(symbol, default_set, symbols_payload, cfg) ==
    LET entry_at == LastRowOf(symbols_payload, symbol)
        quote_asset_value ==
            IF entry_at = 0 THEN None ELSE symbols_payload[entry_at].quoteAsset
        status_value ==
            IF entry_at = 0 THEN None ELSE symbols_payload[entry_at].status
    IN IF symbol \notin default_set THEN "not_in_defaultSymbols"
       ELSE IF entry_at = 0 THEN "metadata_missing"
       ELSE IF quote_asset_value # cfg.quote_asset THEN "quote_asset_not_allowed"
       ELSE IF status_value = None \/ status_value \notin cfg.allowed_exchange_status
       THEN "status_not_allowed"
       ELSE "tradable"

\* universe.py 156-195 with the thresholds tested before the whitelist
second_pass_reason_thresholds_first(symbol, ticker_stats, cfg) ==
    LET ticker == ticker_stats[symbol]
    IN IF \E i \in 1..Len(cfg.blacklist_regex) : symbol \in cfg.blacklist_regex[i]
       THEN "blacklisted"
       ELSE IF symbol \notin DOMAIN ticker_stats THEN "missing_24h_stats"
       ELSE IF ticker.missing_24h_stats THEN "missing_24h_stats"
       ELSE IF ticker.quote_volume_effective = NoFloat THEN "missing_24h_stats"
       ELSE IF ticker.trade_count = NoFloat /\ cfg.require_trade_count
       THEN "missing_trade_count"
       ELSE IF ticker.quote_volume_effective < cfg.min_quote_volume_24h
       THEN "low_volume"
       ELSE IF ticker.trade_count # NoFloat /\ ticker.trade_count < cfg.min_trades_24h
       THEN "low_trades"
       ELSE "kept"

\* universe.py 156-195: the reason the second loop rejects the tradable
\* symbol for, "kept" when it does not
second_pass_reason(symbol, ticker_stats, cfg) ==
    LET ticker == ticker_stats[symbol]
    IN IF \E i \in 1..Len(cfg.blacklist_regex) : symbol \in cfg.blacklist_regex[i]
       THEN "blacklisted"
       ELSE IF symbol \notin DOMAIN ticker_stats THEN "missing_24h_stats"
       ELSE IF ticker.missing_24h_stats THEN "missing_24h_stats"
       ELSE IF symbol \in cfg.whitelist THEN "kept"
       ELSE IF ticker.quote_volume_effective = NoFloat THEN "missing_24h_stats"
       ELSE IF ticker.trade_count = NoFloat /\ cfg.require_trade_count
       THEN "missing_trade_count"
       ELSE IF ticker.quote_volume_effective < cfg.min_quote_volume_24h
       THEN "low_volume"
       ELSE IF ticker.trade_count # NoFloat /\ ticker.trade_count < cfg.min_trades_24h
       THEN "low_trades"
       ELSE "kept"

\* the UniverseReject entries a loop appends, in the order of its symbols
RejectsOf(symbols, reason(_), passed) ==
    LET rejected == SelectSeq(symbols, LAMBDA symbol : reason(symbol) # passed)
    IN [i \in 1..Len(rejected) |->
          [symbol |-> rejected[i], reason |-> reason(rejected[i])]]

\* universe.py 28-245
build_universe(default_symbols, symbols_payload, ticker_payload, book_payload, cfg) ==
    IF default_symbols = <<>>
    THEN [error |-> "UniverseBuildError",
          message |-> "defaultSymbols empty or unavailable; cannot build universe"]
    ELSE
    LET default_set == Range(default_symbols)
        exchange_keys == {symbols_payload[i].symbol : i \in 1..Len(symbols_payload)}
        all == candidates(default_set, exchange_keys)
        first(symbol) == first_pass_reason(symbol, default_set, symbols_payload, cfg)
        tradable == SelectSeq(all, LAMBDA symbol : first(symbol) = "tradable")
        ticker_stats ==
            build_ticker24h_stats(ticker_payload, book_payload, tradable,
                                  cfg.use_quote_volume_estimate,
                                  cfg.require_trade_count)
        second(symbol) == second_pass_reason(symbol, ticker_stats, cfg)
        kept == SelectSeq(tradable, LAMBDA symbol : second(symbol) = "kept")
        rejects == RejectsOf(all, first, "tradable")
                   \o RejectsOf(tradable, second, "kept")
    IN IF kept = <<>>
       THEN [error |-> "UniverseBuildError",
             message |-> "Universe filtered to 0 symbols; relax thresholds"]
       ELSE [error |-> None,
             symbols |-> kept,
             rejects |-> rejects,
             stats |-> [total |-> Len(all), kept |-> Len(kept),
                        rejected |-> Len(rejects)]]

CallBuildUniverse(default_symbols, symbols_payload, ticker_payload, book_payload, cfg) ==
    /\ sampling = NotSampling
    /\ call = NoCall
    /\ call' = [ fn |-> "build_universe",
                 default_symbols |-> default_symbols,
                 symbols_payload |-> symbols_payload,
                 ticker_payload |-> ticker_payload,
                 book_payload |-> book_payload,
                 cfg |-> cfg,
                 result |-> build_universe(default_symbols, symbols_payload,
                                           ticker_payload, book_payload, cfg) ]
    /\ UNCHANGED <<base_vars, sampling, depth_check>>

InitUniverse == PipelineIdle /\ AnalysisIdle

NextUniverse ==
    /\ call = NoCall
    /\ \E default_symbols \in DefaultSymbolLists,
          symbols_payload \in ExchangePayloads,
          ticker_payload \in UniverseTickerPayloads,
          book_payload \in UniverseBookPayloads,
          cfg \in UniverseConfigs :
            CallBuildUniverse(default_symbols, symbols_payload, ticker_payload,
                              book_payload, cfg)

SpecUniverse == InitUniverse /\ [][NextUniverse]_vars


\* build_universe has been applied
UniverseRan ==
    /\ call # NoCall
    /\ call.fn = "build_universe"

\* build_universe has returned a UniverseResult
UniverseReturned ==
    /\ UniverseRan
    /\ call.result.error = None

\* the union of the default list and of the metadata catalog
UnionOfSources ==
    Range(call.default_symbols)
    \cup {call.symbols_payload[i].symbol : i \in 1..Len(call.symbols_payload)}

\* the entry of the metadata catalog for the symbol
CatalogEntry(symbol) ==
    call.symbols_payload[CHOOSE i \in 1..Len(call.symbols_payload) :
                            call.symbols_payload[i].symbol = symbol]

\* the 24h statistics build_ticker24h_stats gives for the symbol
StatsOf(symbol) ==
    Ticker24hStats(call.ticker_payload, call.book_payload, symbol,
                   call.cfg.use_quote_volume_estimate,
                   call.cfg.require_trade_count)

\* the reason of the first check the symbol fails, in the fixed order;
\* "kept" for a symbol that fails none
FirstFailingCheck(symbol) ==
    IF symbol \notin Range(call.default_symbols) THEN "not_in_defaultSymbols"
    ELSE IF \A i \in 1..Len(call.symbols_payload) :
                call.symbols_payload[i].symbol # symbol
    THEN "metadata_missing"
    ELSE IF CatalogEntry(symbol).quoteAsset # call.cfg.quote_asset
    THEN "quote_asset_not_allowed"
    ELSE IF CatalogEntry(symbol).status \notin call.cfg.allowed_exchange_status
    THEN "status_not_allowed"
    ELSE IF \E i \in 1..Len(call.cfg.blacklist_regex) :
                symbol \in call.cfg.blacklist_regex[i]
    THEN "blacklisted"
    ELSE IF StatsOf(symbol).missing_24h_stats THEN "missing_24h_stats"
    ELSE IF symbol \in call.cfg.whitelist THEN "kept"
    ELSE IF StatsOf(symbol).quote_volume_effective < call.cfg.min_quote_volume_24h
    THEN "low_volume"
    ELSE IF /\ StatsOf(symbol).trade_count # NoFloat
            /\ StatsOf(symbol).trade_count < call.cfg.min_trades_24h
    THEN "low_trades"
    ELSE "kept"

\* the positions of the symbol in the rejects
RejectsFor(symbol) ==
    {i \in 1..Len(call.result.rejects) : call.result.rejects[i].symbol = symbol}

C40_CandidatesPartitioned ==
    UniverseRan =>
        IF call.result.error = None
        THEN LET result == call.result
             IN /\ \A symbol \in UnionOfSources :
                       IF symbol \in Range(result.symbols)
                       THEN RejectsFor(symbol) = {}
                       ELSE Cardinality(RejectsFor(symbol)) = 1
                /\ Range(result.symbols) \subseteq UnionOfSources
                /\ \A i \in 1..Len(result.rejects) :
                       result.rejects[i].symbol \in UnionOfSources
                /\ \A i, j \in 1..Len(result.symbols) :
                       result.symbols[i] = result.symbols[j] => i = j
                /\ result.stats.total = Cardinality(UnionOfSources)
                /\ result.stats.kept = Len(result.symbols)
                /\ result.stats.rejected = Len(result.rejects)
                /\ result.stats.total = result.stats.kept + result.stats.rejected
                /\ result.symbols # <<>>
        ELSE /\ call.result.error = "UniverseBuildError"
             /\ \/ call.default_symbols = <<>>
                \/ \A symbol \in UnionOfSources : FirstFailingCheck(symbol) # "kept"

\* the default list names one symbol twice and the catalog holds a symbol
\* the default list does not: one symbol kept, one rejected
C40_Witness ==
    /\ UniverseReturned
    /\ call.default_symbols = <<"AAA", "AAA">>
    /\ Len(call.symbols_payload) = 2
    /\ call.result.symbols = <<"AAA">>
    /\ call.result.rejects = <<[symbol |-> "BBB", reason |-> "not_in_defaultSymbols"]>>
    /\ call.result.stats = [total |-> 2, kept |-> 1, rejected |-> 1]

----------------------------------------------------------------------------
(* The score artifact written and read back: io/summary_export.py and
   _read_summary_results of pipeline/stages.py *)

\* the statistics compute_spread_stats gives for n samples of which v are
\* valid, with the 24-hour fields of the enrichment
RoundTripStats ==
    { [ symbol |-> "AAA",
        sample_count |-> counts[1],
        valid_samples |-> counts[2],
        invalid_quotes |-> counts[1] - counts[2],
        uptime |-> (100 * counts[2]) \div counts[1],
        insufficient_samples |-> counts[2] < MIN_SAMPLE_COUNT,
        spread_median_bps |-> IF counts[2] = 0 THEN NoBps ELSE median_bps,
        spread_p10_bps |-> IF counts[2] = 0 THEN NoBps ELSE 5,
        spread_p25_bps |-> IF counts[2] = 0 THEN NoBps ELSE 5,
        spread_p90_bps |-> IF counts[2] = 0 THEN NoBps ELSE p90_bps,
        quote_volume_24h |-> enrichment.quote_volume_24h,
        quote_volume_24h_raw |-> enrichment.quote_volume_24h,
        volume_24h_raw |-> Missing24h,
        mid_price |-> enrichment.mid_price,
        quote_volume_24h_est |-> Missing24h,
        quote_volume_24h_effective |-> enrichment.quote_volume_24h,
        trades_24h |-> enrichment.trades_24h,
        missing_24h_stats |-> enrichment.missing_24h_stats,
        missing_24h_reason |-> enrichment.missing_24h_reason ] :
      counts \in {<<2, 0>>, <<2, 2>>, <<4, 0>>, <<4, 2>>, <<4, 4>>},
      median_bps \in {5, 20}, p90_bps \in {30, 70},
      enrichment \in Enrichments }

\* the configurations that declare every attribute score_symbol reads
RoundTripConfigs == {cfg \in ScoreConfigs : cfg.declares}

\* scoring.py 212, 275-285: the ScoreResult of the statistics
ScoreResult(stats, cfg) ==
    [symbol |-> stats.symbol] @@ score_symbol(stats, cfg)

\* summary_export.py 77-112: the row written for a result
_row_payload(result) ==
    LET stats == result.spread_stats
    IN [ symbol |-> result.symbol,
         spread_median_bps |-> stats.spread_median_bps,
         spread_p25_bps |-> stats.spread_p25_bps,
         spread_p10_bps |-> stats.spread_p10_bps,
         spread_p90_bps |-> stats.spread_p90_bps,
         uptime |-> stats.uptime,
         quoteVolume_24h |-> stats.quote_volume_24h,
         quoteVolume_24h_raw |-> stats.quote_volume_24h_raw,
         volume_24h_raw |-> stats.volume_24h_raw,
         mid_price |-> stats.mid_price,
         quoteVolume_24h_est |-> stats.quote_volume_24h_est,
         quoteVolume_24h_effective |-> stats.quote_volume_24h_effective,
         used_quote_volume_estimate |->
             /\ stats.quote_volume_24h_est # Missing24h
             /\ stats.quote_volume_24h_raw = Missing24h,
         trades_24h |-> stats.trades_24h,
         trade_count_missing |-> stats.trades_24h = Missing24h,
         missing_24h_stats |-> stats.missing_24h_stats,
         missing_24h_reason |-> stats.missing_24h_reason,
         edge_mm_bps |-> result.edge_mm_bps,
         edge_mm_p25_bps |-> result.edge_mm_p25_bps,
         edge_mt_bps |-> result.edge_mt_bps,
         net_edge_bps |-> result.net_edge_bps,
         pass_spread |-> result.pass_spread,
         score |-> result.score,
         fail_reasons |-> result.fail_reasons ]

\* summary_export.py 125, 164-165: the content of summary.json, the rows by
\* descending score and then symbol; json.dumps writes a number, a boolean,
\* a null, a text and a list so that json.loads reads the same value back
export_summary(results) ==
    LET results_list == SortSeq(results, ByScoreThenSymbol)
    IN [i \in 1..Len(results_list) |-> _row_payload(results_list[i])]

\* stages.py 137-144
_parse_int(value) == IF value = Unparsable THEN NoFloat ELSE value

\* stages.py 333-362: the SpreadStats built from an entry of summary.json
SpreadStatsRead(entry) ==
    LET reasons == entry.fail_reasons
    IN [ symbol |-> entry.symbol,
         sample_count |-> 0,
         valid_samples |-> 0,
         invalid_quotes |-> IF "invalid_quotes" \in Range(reasons) THEN 1 ELSE 0,
         uptime |-> IF _parse_float(entry.uptime) = NoFloat THEN 0
                    ELSE _parse_float(entry.uptime),
         insufficient_samples |-> "insufficient_samples" \in Range(reasons),
         spread_median_bps |-> _parse_float(entry.spread_median_bps),
         spread_p10_bps |-> _parse_float(entry.spread_p10_bps),
         spread_p25_bps |-> _parse_float(entry.spread_p25_bps),
         spread_p90_bps |-> _parse_float(entry.spread_p90_bps),
         quote_volume_24h |-> _parse_float(entry.quoteVolume_24h),
         quote_volume_24h_raw |-> _parse_float(entry.quoteVolume_24h_raw),
         volume_24h_raw |-> _parse_float(entry.volume_24h_raw),
         mid_price |-> _parse_float(entry.mid_price),
         quote_volume_24h_est |-> _parse_float(entry.quoteVolume_24h_est),
         quote_volume_24h_effective |->
             _parse_float(entry.quoteVolume_24h_effective),
         trades_24h |-> _parse_int(entry.trades_24h),
         missing_24h_stats |->
             IF "missing_24h_stats" \notin Range(reasons)
             THEN entry.missing_24h_stats ELSE TRUE,
         missing_24h_reason |-> entry.missing_24h_reason ]

\* stages.py 305-375: the list read back.  The first entry with a symbol
\* reaches ScoreResult(...) of line 364, which is called with the keyword
\* edge_with_unwind_bps and without edge_mm_p25_bps and edge_mt_bps; the
\* dataclass (scoring.py 73-81) has no such field and gives the two others
\* no default, so the constructor raises TypeError after the statistics
\* of that entry are built.
_read_summary_results(payload) ==
    IF payload = <<>> THEN [error |-> None, results |-> <<>>]
    ELSE [error |-> "TypeError", stats |-> SpreadStatsRead(payload[1])]

\* stages.py 541-553: the score stage writes the results and the depth
\* stage reads them back
CallRoundTrip(stats_list, cfg) ==
    /\ sampling = NotSampling
    /\ call = NoCall
    /\ LET results == [i \in 1..Len(stats_list) |-> ScoreResult(stats_list[i], cfg)]
       IN call' = [ fn |-> "_read_summary_results",
                    cfg |-> cfg,
                    results |-> results,
                    result |-> _read_summary_results(export_summary(results)) ]
    /\ UNCHANGED <<base_vars, sampling, depth_check>>

InitRoundTrip == PipelineIdle /\ AnalysisIdle

NextRoundTrip ==
    /\ call = NoCall
    /\ \E stats_list \in {<<>>} \cup {<<stats>> : stats \in RoundTripStats},
          cfg \in RoundTripConfigs :
            CallRoundTrip(stats_list, cfg)

SpecRoundTrip == InitRoundTrip /\ [][NextRoundTrip]_vars

\* results have been written to summary.json and read back
ReadBack ==
    /\ call # NoCall
    /\ call.fn = "_read_summary_results"

\* C34: reading summary.json back yields, for every symbol written, a
\* ScoreResult with the statistics (sample_count, valid_samples and
\* invalid_quotes included), the edges, pass_spread, score and fail_reasons
\* of the original, so that scoring the statistics read back gives the
\* original ScoreResult again.
C34_RoundTripReproduces ==
    ReadBack =>
        /\ call.result.error = None
        /\ Len(call.result.results) = Len(call.results)
        /\ \A i \in 1..Len(call.results) :
               /\ call.result.results[i] = call.results[i]
               /\ ScoreResult(call.result.results[i].spread_stats, call.cfg)
                    = call.results[i]

====
